---------------------------- MODULE Spec2Model ----------------------------
(***************************************************************************)
(* Worker pool (worker/pool.go), task step executor (exec TaskStep) and    *)
(* manual trigger handler of the ATC.  The specifications share the        *)
(* definitions below:                                                      *)
(*   SpecPool      pool.AllSatisfying and pool.Satisfying over every       *)
(*                 provider answer                                         *)
(*   SpecPlace     pool.FindOrCreateBuildContainer over every volume       *)
(*                 layout                                                  *)
(*   SpecResource  the pool's calls for resource check and get containers  *)
(*   SpecSelect    TaskStep.createContainer and the streaming of inputs    *)
(*                 over every worker/volume layout                         *)
(*   SpecImage     createContainer with an image resource, a second step   *)
(*                 fetching the same image concurrently                    *)
(*   SpecSource    one Run and Release, then VolumeOn on registered        *)
(*                 sources                                                 *)
(*   SpecCancel    one Run with a signal arriving during its setup         *)
(*   SpecTrigger   the API handler of a manual job trigger                 *)
(*   Spec          TaskStep.Run / Release with restarts, signals and the   *)
(*                 in-container process as environment                     *)
(***************************************************************************)
EXTENDS Integers, Sequences, FiniteSets, TLC

\* ------------------------------------------------------------------ bounds
NumWorkers == 2
MaxRuns == 2

Workers == 1..NumWorkers
WorkerSpecs == {"linux", "darwin"}
InputNames == {"A", "B"}
OutputNames == {"x", "y"}
ExitCodes == {0, 12}
None == "none"

VARIABLES
    \* worker pool (pool.go)
    running,        \* provider.RunningWorkers: the worker list
    providerFails,  \* provider.RunningWorkers returns an error
    ownedByTeam,    \* worker.IsOwnedByTeam()
    satisfies,      \* specs for which worker.Satisfying returns no error
    poolSpec,       \* the WorkerSpec handed to AllSatisfying
    poolPc,         \* position of the pool call
    poolResult,     \* what AllSatisfying returned
    \* task configuration and source repository on entry
    inputs,         \* config.Inputs
    outputs,        \* config.Outputs
    inRepo,         \* input names step.repo.SourceFor finds
    volOn,          \* volOn[i]: workers on which source i has a volume
    hasVM,          \* worker.VolumeManager() found
    imageResource,  \* config.ImageResource != nil
    \* durable world: containers, their properties and processes
    containers,
    \* one TaskStep and its Run invocation
    pc, stepContainer, stepProcess, exitStatus, registered, ready,
    signals, result,
    compatibleWorkers, chosenWorker, inputMounts, inputsToStream, outputMounts,
    volumeLog,      \* volume references the step took and released, in order
    log,
    runs,           \* Run invocations so far (history)
    \* one pool.FindOrCreateBuildContainer call
    placePc,        \* position of the call
    placeHost,      \* worker FindWorkerForBuildContainer found (NoWorker if none)
    placeCompat,    \* compatibleWorkers
    placeWorkers,   \* candidates findWorkerNotRunningVTXTask has not tried yet
    placeResult,    \* what the call returned
    placeLog,       \* calls on the provider, the inputs and the workers, in order
    \* a later step asking a registered source for its volume
    sourceQuery,    \* the last VolumeOn call on a registered source and its answer
    \* getContainerImage, run by this step and by another step on the same image
    fetchPc,        \* fetchPc[f]: position of fetcher f in getContainerImage
    fetchErr,       \* fetchErr[f]: the error fetcher f returned
    cacheInitialized, \* cacheInitialized[w]: the image cache on worker w is initialized
    getCount,       \* getCount[w]: image Gets that have succeeded on worker w
    \* one POST to the job's builds endpoint (api buildserver CreateJobBuild)
    jobs,           \* pipelineDB.Config().Jobs: each job name absent or configured
    jobName,        \* the request's :job_name
    handlerPc,      \* position of the handler
    response,       \* status and body written to the ResponseWriter
    triggerCalls,   \* calls of scheduler.TriggerImmediately
    builds          \* builds created, by job name

poolVars == <<running, providerFails, ownedByTeam, satisfies, poolSpec, poolPc, poolResult>>
configVars == <<inputs, outputs, inRepo, volOn, hasVM, imageResource>>
selectVars == <<compatibleWorkers, chosenWorker, inputMounts, inputsToStream, outputMounts,
                volumeLog>>
stepVars == <<pc, stepContainer, stepProcess, exitStatus, registered, ready, signals, result, log>>
placeVars == <<placePc, placeHost, placeCompat, placeWorkers, placeResult, placeLog>>
imageVars == <<fetchPc, fetchErr, cacheInitialized, getCount>>
handlerVars == <<jobs, jobName, handlerPc, response, triggerCalls, builds>>
vars == <<poolVars, configVars, containers, selectVars, stepVars, runs, placeVars,
          sourceQuery, imageVars, handlerVars>>

\* ------------------------------------------------------------ sequences
Range(s) == {s[i] : i \in 1..Len(s)}

\* sequences without repetition over S
DistinctSeqs(S) ==
    {s \in UNION {[1..n -> S] : n \in 0..Cardinality(S)} :
        \A i, j \in 1..Len(s) : i # j => s[i] # s[j]}

\* ------------------------------------- fmt.Sprintf("%d") / fmt.Sscanf("%d")
Digits == <<"0", "1", "2", "3", "4", "5", "6", "7", "8", "9">>

IsDigit(c) == \E d \in 1..10 : Digits[d] = c

DigitVal(c) == (CHOOSE d \in 1..10 : Digits[d] = c) - 1

RECURSIVE FormatNat(_)
FormatNat(n) ==
    IF n < 10 THEN <<Digits[n + 1]>>
    ELSE Append(FormatNat(n \div 10), Digits[(n % 10) + 1])

\* statusValue := fmt.Sprintf("%d", status)
Sprintf_d(n) == IF n < 0 THEN <<"-">> \o FormatNat(0 - n) ELSE FormatNat(n)

RECURSIVE ScanDigits(_, _, _)
ScanDigits(s, i, acc) ==
    IF i <= Len(s) /\ IsDigit(s[i])
    THEN ScanDigits(s, i + 1, acc * 10 + DigitVal(s[i]))
    ELSE acc

\* mutation: only the first digit is read
Sscanf_d_FirstDigit(s) ==
    [err |-> ~(Len(s) >= 1 /\ IsDigit(s[1])),
     val |-> IF Len(s) >= 1 /\ IsDigit(s[1]) THEN DigitVal(s[1]) ELSE 0]

\* _, err = fmt.Sscanf(exitStatusProp, "%d", &step.exitStatus)
Sscanf_d(s) ==
    LET signed == Len(s) >= 1 /\ s[1] \in {"-", "+"}
        first == IF signed THEN 2 ELSE 1
        ok == first <= Len(s) /\ IsDigit(s[first])
        mag == ScanDigits(s, first, 0)
    IN  [err |-> ~ok,
         val |-> IF ~ok THEN 0 ELSE IF signed /\ s[1] = "-" THEN 0 - mag ELSE mag]

\* ------------------------------------------------------------ worker pool
NoWorkers == <<>>

PoolOk(ws) == [err |-> None, workers |-> ws, Spec |-> None, Workers |-> NoWorkers]

PoolErr(e) == [err |-> e, workers |-> NoWorkers, Spec |-> None, Workers |-> NoWorkers]

NoCompatibleWorkersError(spec, workers) ==
    [err |-> "NoCompatibleWorkersError", workers |-> NoWorkers,
     Spec |-> spec, Workers |-> workers]

\* mutation: team and general matches are returned together
AllSatisfying_Merged(workers, spec, provErr) ==
    LET ok == SelectSeq(workers, LAMBDA w : spec \in satisfies[w])
    IN  IF provErr THEN PoolErr("ProviderError")
        ELSE IF Len(workers) = 0 THEN PoolErr("ErrNoWorkers")
        ELSE IF Len(ok) # 0 THEN PoolOk(ok)
        ELSE NoCompatibleWorkersError(spec, workers)

AllSatisfying(workers, spec, provErr) ==
    LET compatibleTeamWorkers ==
            SelectSeq(workers, LAMBDA w : spec \in satisfies[w] /\ ownedByTeam[w])
        compatibleGeneralWorkers ==
            SelectSeq(workers, LAMBDA w : spec \in satisfies[w] /\ ~ownedByTeam[w])
    IN  IF provErr THEN PoolErr("ProviderError")
        ELSE IF Len(workers) = 0 THEN PoolErr("ErrNoWorkers")
        ELSE IF Len(compatibleTeamWorkers) # 0 THEN PoolOk(compatibleTeamWorkers)
        ELSE IF Len(compatibleGeneralWorkers) # 0 THEN PoolOk(compatibleGeneralWorkers)
        ELSE NoCompatibleWorkersError(spec, workers)

\* ------------------------------------------------- task step: pure helpers
ArtifactsRoot == "/tmp/build/suffix"

\* filepath.Join(step.artifactsRoot, subdir)
inputDestination(name) == <<ArtifactsRoot, name>>

\* path.Join(artifactsRoot, outputSrc) + "/"
artifactsPath(name) == <<ArtifactsRoot, name, "/">>

VolumeMount(volume, mountPath) == [Volume |-> volume, MountPath |-> mountPath]

\* the volume source.VolumeOn(w) finds for input i
InputVolume(i, w) == <<"volume", i, w>>

\* the volume baggageclaimClient.CreateVolume returns for an output
OutputVolume(o, w) == <<"output-volume", o, w>>

NoError == [err |-> None, Inputs |-> <<>>]

MissingInputsError(names) == [err |-> "MissingInputsError", Inputs |-> names]

\* mutation: no volume is ever found
volumeFound_Never(i, w) == FALSE

\* volume, existsOnWorker, err := source.VolumeOn(w); existsOnWorker
volumeFound(i, w) == volOn[i][w] = "found"

RECURSIVE inputsOnLoop(_, _, _, _, _, _)
inputsOnLoop(ins, k, w, mounts, inputPairs, missingInputs) ==
    IF k > Len(ins)
    THEN IF Len(missingInputs) > 0
         THEN [error |-> MissingInputsError(missingInputs), mounts |-> <<>>, toStream |-> <<>>]
         ELSE [error |-> NoError, mounts |-> mounts, toStream |-> inputPairs]
    ELSE IF ins[k] \notin inRepo
         THEN inputsOnLoop(ins, k + 1, w, mounts, inputPairs, Append(missingInputs, ins[k]))
    ELSE IF volOn[ins[k]][w] = "error"
         THEN [error |-> [err |-> "VolumeOnError", Inputs |-> <<>>],
               mounts |-> <<>>, toStream |-> <<>>]
    ELSE IF volumeFound(ins[k], w)
         THEN inputsOnLoop(ins, k + 1, w,
                  Append(mounts, VolumeMount(InputVolume(ins[k], w), inputDestination(ins[k]))),
                  inputPairs, missingInputs)
    ELSE inputsOnLoop(ins, k + 1, w, mounts, Append(inputPairs, ins[k]), missingInputs)

\* mutation: inputs the repository lacks are passed over
inputsOn_SkipMissing(ins, w) ==
    inputsOnLoop(SelectSeq(ins, LAMBDA i : i \in inRepo), 1, w, <<>>, <<>>, <<>>)

inputsOn(ins, w) == inputsOnLoop(ins, 1, w, <<>>, <<>>, <<>>)

\* mutation: the comparison is dropped, the last worker always wins
keepsCandidate_Always(mounts, best) == TRUE

\* if len(mounts) >= len(inputMounts)
keepsCandidate(mounts, best) == Len(mounts) >= Len(best)

NoWorker == 0

RECURSIVE chooseLoop(_, _, _, _)
chooseLoop(ws, k, ins, acc) ==
    IF k > Len(ws) THEN acc
    ELSE LET on == inputsOn(ins, ws[k])
         IN  IF on.error.err # None
             THEN [error |-> on.error, chosenWorker |-> NoWorker,
                   inputMounts |-> <<>>, inputsToStream |-> <<>>]
             ELSE IF keepsCandidate(on.mounts, acc.inputMounts)
                  THEN chooseLoop(ws, k + 1, ins,
                           [error |-> NoError, chosenWorker |-> ws[k],
                            inputMounts |-> on.mounts, inputsToStream |-> on.toStream])
                  ELSE chooseLoop(ws, k + 1, ins, acc)

\* mutation: the workers are visited from the last to the first
chooseWorkerWithMostVolumes_Reversed(ws, ins) ==
    chooseLoop([k \in 1..Len(ws) |-> ws[Len(ws) + 1 - k]], 1, ins,
        [error |-> NoError, chosenWorker |-> NoWorker,
         inputMounts |-> <<>>, inputsToStream |-> <<>>])

chooseWorkerWithMostVolumes(ws, ins) ==
    chooseLoop(ws, 1, ins,
        [error |-> NoError, chosenWorker |-> NoWorker,
         inputMounts |-> <<>>, inputsToStream |-> <<>>])

\* ---------------------------------------------- volume reference counting
\* source.VolumeOn returned the volume: the step holds a reference to it
Acquire(volume) == [op |-> "acquire", volume |-> volume]

\* volume.Release(0)
Release0(volume) == [op |-> "release", volume |-> volume]

\* mutation: the mounts are not released
releasesOf_None(mounts) == <<>>

\* for _, mount := range mounts { mount.Volume.Release(0) }
releasesOf(mounts) == [k \in 1..Len(mounts) |-> Release0(mounts[k].Volume)]

\* the references inputsOn(ins, w) has taken by the time it returns, with or
\* without an error: one for every input VolumeOn found a volume for
RECURSIVE acquiredOn(_, _, _)
acquiredOn(ins, k, w) ==
    IF k > Len(ins) THEN <<>>
    ELSE IF ins[k] \notin inRepo THEN acquiredOn(ins, k + 1, w)
    ELSE IF volOn[ins[k]][w] = "error" THEN <<>>
    ELSE IF volumeFound(ins[k], w)
         THEN <<Acquire(InputVolume(ins[k], w))>> \o acquiredOn(ins, k + 1, w)
    ELSE acquiredOn(ins, k + 1, w)

\* the references chooseWorkerWithMostVolumes takes and releases, in order;
\* best is inputMounts as the loop reaches worker k
RECURSIVE chooseVolumeOps(_, _, _, _)
chooseVolumeOps(ws, k, ins, best) ==
    IF k > Len(ws) THEN <<>>
    ELSE LET on == inputsOn(ins, ws[k])
             taken == acquiredOn(ins, 1, ws[k])
         IN  IF on.error.err # None THEN taken
             ELSE IF keepsCandidate(on.mounts, best)
                  THEN taken \o releasesOf(best)
                             \o chooseVolumeOps(ws, k + 1, ins, on.mounts)
                  ELSE taken \o releasesOf(on.mounts)
                             \o chooseVolumeOps(ws, k + 1, ins, best)

\* --------------------------------------------------------- source repository
StepSourceName == "task"
SourceNames == OutputNames \cup {StepSourceName}

NoSource == [kind |-> "none", container |-> 0, output |-> None, volumeHandle |-> <<>>]

TaskStepSource(c) ==
    [kind |-> "TaskStep", container |-> c, output |-> None, volumeHandle |-> <<>>]

newContainerSource(c, output, volumeHandle) ==
    [kind |-> "containerSource", container |-> c, output |-> output,
     volumeHandle |-> volumeHandle]

EmptyRepo == [n \in SourceNames |-> NoSource]

\* ------------------------------------------------------------ containers
ExitStatusProp == "concourse:exit-status"
TaskProcessProp == "concourse:task-process"
SuccessfulStepTTL == "SuccessfulStepTTL"
FailedStepTTL == "FailedStepTTL"

NoProps == [n \in {} |-> <<>>]

NoProcess == [id |-> <<>>, state |-> "none", status |-> 0]

\* the id garden gives the process started in container c
ProcessID(c) == Sprintf_d(16 + c)

\* history: the status and registered sources of the run that completed in c
NoOutcome == [done |-> FALSE, status |-> 0, registered |-> EmptyRepo]

\* what chosenWorker.CreateContainer returns
NewContainer(w, mounts) ==
    [worker |-> w, mounts |-> mounts, props |-> NoProps, process |-> NoProcess,
     exitStatusWrites |-> 0, outcome |-> NoOutcome]

\* container.Property(name)
HasProperty(c, name) == name \in DOMAIN containers[c].props

\* the value, empty when the container does not carry the property
Property(c, name) ==
    IF HasProperty(c, name) THEN containers[c].props[name] ELSE <<>>

\* mutation: a container without concourse:task-process is not told apart
isRogue_Never(c) == FALSE

\* processID, err := step.container.Property(taskProcessPropertyName); err != nil
isRogue(c) == ~HasProperty(c, TaskProcessProp)

\* mutation: the stored exit status is not looked at
AlreadyExited_Never(c) == FALSE

\* exitStatusProp, err := step.container.Property(taskExitStatusPropertyName);
\* if err == nil
AlreadyExited(c) == HasProperty(c, ExitStatusProp)

\* mutation: the id of a process that was never stored
AttachTarget_Other(c) == Sprintf_d(0)

\* processID, err := step.container.Property(taskProcessPropertyName)
AttachTarget(c) == Property(c, TaskProcessProp)

\* mutation: the property is not stored
SetProperty_Lost(c, name, value) == containers

\* container.SetProperty(name, value)
SetProperty(c, name, value) ==
    [containers EXCEPT ![c].props = (name :> value) @@ containers[c].props,
                       ![c].exitStatusWrites =
                           IF name = ExitStatusProp THEN @ + 1 ELSE @]

\* the inner loop over volumeMounts: every mount at outputPath registers
RECURSIVE registerMounts(_, _, _, _, _)
registerMounts(repo, c, output, volumeMounts, k) ==
    IF k > Len(volumeMounts) THEN repo
    ELSE IF volumeMounts[k].MountPath = artifactsPath(output)
         THEN registerMounts(
                  [repo EXCEPT ![output] =
                      newContainerSource(c, output, volumeMounts[k].Volume)],
                  c, output, volumeMounts, k + 1)
         ELSE registerMounts(repo, c, output, volumeMounts, k + 1)

RECURSIVE registerOutputs(_, _, _, _, _)
registerOutputs(repo, c, outs, volumeMounts, k) ==
    IF k > Len(outs) THEN repo
    ELSE IF Len(volumeMounts) > 0
         THEN registerOutputs(registerMounts(repo, c, outs[k], volumeMounts, 1),
                              c, outs, volumeMounts, k + 1)
         ELSE registerOutputs(
                  [repo EXCEPT ![outs[k]] = newContainerSource(c, outs[k], <<>>)],
                  c, outs, volumeMounts, k + 1)

registerSource(repo, c, outs) ==
    IF Len(outs) = 0
    THEN [repo EXCEPT ![StepSourceName] = TaskStepSource(c)]
    ELSE registerOutputs(repo, c, outs, containers[c].mounts, 1)

\* ------------------------------------------------------- TaskStep.Run steps
Ev(op, arg) == [op |-> op, arg |-> arg]

Err(e) == [err |-> e, Inputs |-> <<>>]

\* mutation: the cancelled run reports success
ErrInterrupted_Nil == NoError

ErrInterrupted == Err("ErrInterrupted")

Return(e) ==
    /\ pc' = "returned"
    /\ result' = e

\* config, err := step.configSource.FetchConfig(step.repo)
FetchConfig ==
    /\ pc = "fetch"
    /\ \E ok \in BOOLEAN :
          IF ok
          THEN /\ pc' = "find"
               /\ UNCHANGED result
          ELSE Return(Err("FetchConfigError"))
    /\ log' = Append(log, Ev("FetchConfig", <<>>))
    /\ UNCHANGED <<runs, handlerVars, imageVars, poolVars, placeVars, sourceQuery, configVars, containers, selectVars, stepContainer,
                   stepProcess, exitStatus, registered, ready, signals>>

\* step.container, found, err = step.workerPool.FindContainerForIdentifier(...)
\* followed by the branch on (err == nil && found)
FindContainerForIdentifier ==
    /\ pc = "find"
    /\ \E lookupFails \in BOOLEAN, c \in 0..Len(containers) :
          /\ (c = 0) = (lookupFails \/ Len(containers) = 0)
          /\ stepContainer' = c
          /\ IF c # 0
             THEN /\ pc' = "probe"
                  /\ log' = Append(log, Ev("FindContainerForIdentifier", <<"found">>))
             ELSE /\ pc' = "allsat"
                  /\ log' = log \o <<Ev("FindContainerForIdentifier",
                                        <<IF lookupFails THEN "error" ELSE "not-found">>),
                                     Ev("Initializing", <<>>)>>
    /\ UNCHANGED <<runs, handlerVars, imageVars, poolVars, placeVars, sourceQuery, configVars, containers, selectVars, stepProcess,
                   exitStatus, registered, ready, signals, result>>

\* the found branch: recover the result, or re-attach to the process
Recover ==
    /\ pc = "probe"
    /\ IF AlreadyExited(stepContainer)
       THEN LET scanned == Sscanf_d(Property(stepContainer, ExitStatusProp))
            IN  IF scanned.err
                THEN /\ Return(Err("SscanfError"))
                     /\ UNCHANGED <<exitStatus, registered, stepProcess, log>>
                ELSE /\ exitStatus' = scanned.val
                     /\ registered' = registerSource(registered, stepContainer, outputs)
                     /\ log' = Append(log, Ev("registerSource", <<>>))
                     /\ Return(NoError)
                     /\ UNCHANGED stepProcess
       ELSE IF isRogue(stepContainer)
       THEN /\ Return(Err("PropertyNotFound"))
            /\ UNCHANGED <<exitStatus, registered, stepProcess, log>>
       ELSE \E ok \in BOOLEAN :
               /\ log' = Append(log, Ev("Attach", AttachTarget(stepContainer)))
               /\ IF ok
                  THEN /\ stepProcess' = AttachTarget(stepContainer)
                       /\ pc' = "ready"
                       /\ UNCHANGED result
                  ELSE /\ Return(Err("AttachError"))
                       /\ UNCHANGED stepProcess
               /\ UNCHANGED <<exitStatus, registered>>
    /\ UNCHANGED <<runs, handlerVars, imageVars, poolVars, placeVars, sourceQuery, configVars, containers, selectVars, stepContainer,
                   ready, signals>>

\* compatibleWorkers, err := step.workerPool.AllSatisfying(workerSpec)
CallAllSatisfying ==
    /\ pc = "allsat"
    /\ \E provErr \in BOOLEAN :
          LET got == AllSatisfying(running, poolSpec, provErr)
          IN  IF got.err # None
              THEN /\ Return(Err(got.err))
                   /\ UNCHANGED compatibleWorkers
              ELSE /\ compatibleWorkers' = got.workers
                   /\ pc' = "choose"
                   /\ UNCHANGED result
    /\ log' = Append(log, Ev("AllSatisfying", <<>>))
    /\ UNCHANGED <<runs, handlerVars, imageVars, poolVars, placeVars, sourceQuery, configVars, containers, chosenWorker, inputMounts,
                   inputsToStream, outputMounts, volumeLog, stepContainer, stepProcess,
                   exitStatus, registered, ready, signals>>

\* createContainer, first statement: choose the worker
ChooseWorker ==
    /\ pc = "choose"
    /\ LET chosen == chooseWorkerWithMostVolumes(compatibleWorkers, inputs)
       IN  IF chosen.error.err # None
           THEN /\ Return(chosen.error)
                /\ stepContainer' = 0
                /\ UNCHANGED <<chosenWorker, inputMounts, inputsToStream>>
           ELSE /\ chosenWorker' = chosen.chosenWorker
                /\ inputMounts' = chosen.inputMounts
                /\ inputsToStream' = chosen.inputsToStream
                /\ pc' = "outvols"
                /\ UNCHANGED <<result, stepContainer>>
    /\ volumeLog' = volumeLog \o chooseVolumeOps(compatibleWorkers, 1, inputs, <<>>)
    /\ log' = Append(log, Ev("chooseWorkerWithMostVolumes", <<>>))
    /\ UNCHANGED <<runs, handlerVars, imageVars, poolVars, placeVars, sourceQuery, configVars, containers, compatibleWorkers, outputMounts,
                   stepProcess, exitStatus, registered, ready, signals>>

\* createContainer: one volume per declared output on the chosen worker
RECURSIVE outputMountsOn(_, _, _)
outputMountsOn(outs, w, k) ==
    IF k > Len(outs) THEN <<>>
    ELSE <<VolumeMount(OutputVolume(outs[k], w), artifactsPath(outs[k]))>>
             \o outputMountsOn(outs, w, k + 1)

\* if config.ImageResource != nil { getContainerImage ... } else { CreateContainer }
AfterOutputVolumes == IF imageResource THEN "image" ELSE "create"

CreateOutputVolumes ==
    /\ pc = "outvols"
    /\ IF Len(outputs) = 0 \/ ~hasVM[chosenWorker]
       THEN /\ outputMounts' = <<>>
            /\ pc' = AfterOutputVolumes
            /\ UNCHANGED <<result, stepContainer, log, volumeLog>>
       ELSE \E ok \in BOOLEAN :
               /\ log' = Append(log, Ev("CreateVolume", <<>>))
               /\ IF ok
                  THEN /\ outputMounts' = outputMountsOn(outputs, chosenWorker, 1)
                       /\ volumeLog' = volumeLog \o
                              [k \in 1..Len(outputs) |->
                                  Acquire(OutputVolume(outputs[k], chosenWorker))]
                       /\ pc' = AfterOutputVolumes
                       /\ UNCHANGED <<result, stepContainer>>
                  ELSE /\ Return(Err("CreateVolumeError"))
                       /\ stepContainer' = 0
                       /\ UNCHANGED <<outputMounts, volumeLog>>
    /\ UNCHANGED <<runs, handlerVars, imageVars, poolVars, placeVars, sourceQuery, configVars, containers, compatibleWorkers, chosenWorker,
                   inputMounts, inputsToStream, stepProcess, exitStatus, registered,
                   ready, signals>>

\* mutation: the failed worker stays in the list
withoutWorker_Kept(ws, chosen) == ws

\* the loop filling newCompatibleWorkers: every worker but the chosen one
withoutWorker(ws, chosen) == SelectSeq(ws, LAMBDA w : w # chosen)

\* container, err := chosenWorker.CreateContainer(...), and the retry on failure
CreateContainer ==
    /\ pc = "create"
    /\ \E ok \in BOOLEAN :
          IF ok
          THEN /\ containers' = Append(containers,
                       NewContainer(chosenWorker, inputMounts \o outputMounts))
               /\ stepContainer' = Len(containers) + 1
               /\ pc' = "builddir"
               /\ log' = Append(log, Ev("CreateContainer", <<"ok", chosenWorker>>))
               /\ volumeLog' = volumeLog \o releasesOf(inputMounts)
                                         \o releasesOf(outputMounts)
               /\ UNCHANGED <<result, compatibleWorkers>>
          ELSE LET newCompatibleWorkers ==
                       withoutWorker(compatibleWorkers, chosenWorker)
               IN  /\ log' = Append(log, Ev("CreateContainer", <<"error", chosenWorker>>))
                   /\ UNCHANGED <<containers, volumeLog>>
                   /\ IF Len(newCompatibleWorkers) = 0
                      THEN /\ Return(Err("Failed to create container on all compatible workers"))
                           /\ stepContainer' = 0
                           /\ UNCHANGED compatibleWorkers
                      ELSE /\ compatibleWorkers' = newCompatibleWorkers
                           /\ pc' = "choose"
                           /\ UNCHANGED <<result, stepContainer>>
    /\ UNCHANGED <<runs, handlerVars, imageVars, poolVars, placeVars, sourceQuery, configVars, chosenWorker, inputMounts, inputsToStream,
                   outputMounts, stepProcess, exitStatus, registered, ready, signals>>

\* mutation: the inputs are not streamed
AfterBuildDir_SkipStreaming == "setupout"

\* err = step.streamInputs(inputsToStream) follows ensureBuildDirExists
AfterBuildDir == "stream"

\* err = step.ensureBuildDirExists(step.container)
EnsureBuildDirExists ==
    /\ pc = "builddir"
    /\ \E ok \in BOOLEAN :
          IF ok
          THEN /\ pc' = AfterBuildDir
               /\ UNCHANGED result
          ELSE Return(Err("StreamInError"))
    /\ log' = Append(log, Ev("ensureBuildDirExists", <<>>))
    /\ UNCHANGED <<runs, handlerVars, imageVars, poolVars, placeVars, sourceQuery, configVars, containers, selectVars, stepContainer,
                   stepProcess, exitStatus, registered, ready, signals>>

\* err = step.streamInputs(inputsToStream): n inputs are streamed, then one
\* fails or the list is exhausted
StreamInputs ==
    /\ pc = "stream"
    /\ \E n \in 0..Len(inputsToStream) :
          /\ log' = log \o [k \in 1..n |-> Ev("StreamTo", <<inputsToStream[k]>>)]
                        \o (IF n < Len(inputsToStream)
                            THEN <<Ev("StreamTo", <<inputsToStream[n + 1], "error">>)>>
                            ELSE <<>>)
          /\ IF n = Len(inputsToStream)
             THEN /\ pc' = "setupout"
                  /\ UNCHANGED result
             ELSE Return(Err("StreamToError"))
    /\ UNCHANGED <<runs, handlerVars, imageVars, poolVars, placeVars, sourceQuery, configVars, containers, selectVars, stepContainer,
                   stepProcess, exitStatus, registered, ready, signals>>

\* err = step.setupOutputs(config.Outputs); step.delegate.Started()
SetupOutputs ==
    /\ pc = "setupout"
    /\ \E n \in 0..Len(outputs) :
          IF n = Len(outputs)
          THEN /\ pc' = "run"
               /\ log' = log \o <<Ev("setupOutputs", <<>>), Ev("Started", <<>>)>>
               /\ UNCHANGED result
          ELSE /\ Return(Err("StreamInError"))
               /\ log' = Append(log, Ev("setupOutputs", <<outputs[n + 1], "error">>))
    /\ UNCHANGED <<runs, handlerVars, imageVars, poolVars, placeVars, sourceQuery, configVars, containers, selectVars, stepContainer,
                   stepProcess, exitStatus, registered, ready, signals>>

\* step.process, err = step.container.Run(garden.ProcessSpec{...}, processIO)
RunProcess ==
    /\ pc = "run"
    /\ \E ok \in BOOLEAN :
          IF ok
          THEN /\ containers' = [containers EXCEPT ![stepContainer].process =
                       [id |-> ProcessID(stepContainer), state |-> "running", status |-> 0]]
               /\ stepProcess' = ProcessID(stepContainer)
               /\ pc' = "setprop"
               /\ log' = Append(log, Ev("Run", <<"ok">>))
               /\ UNCHANGED result
          ELSE /\ Return(Err("RunError"))
               /\ log' = Append(log, Ev("Run", <<"error">>))
               /\ UNCHANGED <<containers, stepProcess>>
    /\ UNCHANGED <<runs, handlerVars, imageVars, poolVars, placeVars, sourceQuery, configVars, selectVars, stepContainer, exitStatus,
                   registered, ready, signals>>

\* err = step.container.SetProperty(taskProcessPropertyName, step.process.ID())
SetTaskProcess ==
    /\ pc = "setprop"
    /\ \E ok \in BOOLEAN :
          IF ok
          THEN /\ containers' = SetProperty(stepContainer, TaskProcessProp, stepProcess)
               /\ pc' = "ready"
               /\ log' = Append(log, Ev("SetProperty", <<TaskProcessProp>>))
               /\ UNCHANGED result
          ELSE /\ Return(Err("SetPropertyError"))
               /\ log' = Append(log, Ev("SetProperty", <<TaskProcessProp, "error">>))
               /\ UNCHANGED containers
    /\ UNCHANGED <<runs, handlerVars, imageVars, poolVars, placeVars, sourceQuery, configVars, selectVars, stepContainer, stepProcess,
                   exitStatus, registered, ready, signals>>

\* mutation: the channel is closed a second time
closed_Twice(n) == n + 2

\* close(ready): the number of times the channel has been closed
closed(n) == n + 1

\* close(ready), and the goroutine calling step.process.Wait() is started
CloseReady ==
    /\ pc = "ready"
    /\ ready' = closed(ready)
    /\ pc' = "wait"
    /\ log' = Append(log, Ev("close(ready)", <<>>))
    /\ UNCHANGED <<runs, handlerVars, imageVars, poolVars, placeVars, sourceQuery, configVars, containers, selectVars, stepContainer,
                   stepProcess, exitStatus, registered, signals, result>>

\* select, case <-signals: step.registerSource(config)
SelectSignal ==
    /\ pc = "wait"
    /\ signals = "pending"
    /\ signals' = "received"
    /\ registered' = registerSource(registered, stepContainer, outputs)
    /\ pc' = "stop"
    /\ log' = Append(log, Ev("registerSource", <<>>))
    /\ UNCHANGED <<runs, handlerVars, imageVars, poolVars, placeVars, sourceQuery, configVars, containers, selectVars, stepContainer,
                   stepProcess, exitStatus, ready, result>>

\* step.container.Stop(false); return ErrInterrupted
StopContainer ==
    /\ pc = "stop"
    /\ log' = Append(log, Ev("Stop", <<"false">>))
    /\ Return(ErrInterrupted)
    /\ UNCHANGED <<runs, handlerVars, imageVars, poolVars, placeVars, sourceQuery, configVars, containers, selectVars, stepContainer,
                   stepProcess, exitStatus, registered, ready, signals>>

\* select, case status := <-waitExitStatus: registerSource; step.exitStatus = status
SelectExitStatus ==
    /\ pc = "wait"
    /\ containers[stepContainer].process.state = "exited"
    /\ registered' = registerSource(registered, stepContainer, outputs)
    /\ exitStatus' = containers[stepContainer].process.status
    /\ pc' = "setexit"
    /\ log' = Append(log, Ev("registerSource", <<>>))
    /\ UNCHANGED <<runs, handlerVars, imageVars, poolVars, placeVars, sourceQuery, configVars, containers, selectVars, stepContainer,
                   stepProcess, ready, signals, result>>

\* err := step.container.SetProperty(taskExitStatusPropertyName, statusValue);
\* step.delegate.Finished(ExitStatus(status)); return nil
SetExitStatus ==
    /\ pc = "setexit"
    /\ \E ok \in BOOLEAN :
          IF ok
          THEN /\ containers' =
                   [SetProperty(stepContainer, ExitStatusProp, Sprintf_d(exitStatus))
                       EXCEPT ![stepContainer].outcome =
                           IF @.done THEN @
                           ELSE [done |-> TRUE, status |-> exitStatus,
                                 registered |-> registered]]
               /\ log' = log \o <<Ev("SetProperty", <<ExitStatusProp>>),
                                  Ev("Finished", Sprintf_d(exitStatus))>>
               /\ Return(NoError)
          ELSE /\ log' = Append(log, Ev("SetProperty", <<ExitStatusProp, "error">>))
               /\ Return(Err("SetPropertyError"))
               /\ UNCHANGED containers
    /\ UNCHANGED <<runs, handlerVars, imageVars, poolVars, placeVars, sourceQuery, configVars, selectVars, stepContainer, stepProcess,
                   exitStatus, registered, ready, signals>>

\* mutation: the error of process.Wait is dropped
waitError_Nil == NoError

\* the error process.Wait() returned, sent on waitErr
waitError == Err("WaitError")

\* select, case err := <-waitErr: return err
SelectWaitErr ==
    /\ pc = "wait"
    /\ containers[stepContainer].process.state = "dead"
    /\ Return(waitError)
    /\ UNCHANGED <<runs, handlerVars, imageVars, poolVars, placeVars, sourceQuery, configVars, containers, selectVars, stepContainer,
                   stepProcess, exitStatus, registered, ready, signals, log>>

\* mutation: every container is released as a successful one
releaseTTL_Successful(status) == SuccessfulStepTTL

\* if step.exitStatus == 0 { Release(SuccessfulStepTTL) } else { Release(FailedStepTTL) }
releaseTTL(status) == IF status = 0 THEN SuccessfulStepTTL ELSE FailedStepTTL

\* TaskStep.Release, called once Run has returned
Release ==
    /\ pc = "returned"
    /\ pc' = "released"
    /\ IF stepContainer = 0
       THEN UNCHANGED log
       ELSE log' = Append(log, Ev("Release", <<releaseTTL(exitStatus)>>))
    /\ UNCHANGED <<runs, handlerVars, imageVars, poolVars, placeVars, sourceQuery, configVars, containers, selectVars, stepContainer,
                   stepProcess, exitStatus, registered, ready, signals, result>>

\* ------------------------------------------------ TaskStep.getContainerImage
\* this step and another task step with the same image resource
Fetchers == {"step", "other"}

\* the worker the other step has chosen
OtherWorker == 1

\* the worker argument of getContainerImage
fetchWorker(f) == IF f = "step" THEN chosenWorker ELSE OtherWorker

ErrImageUnavailable == Err("ErrImageUnavailable")

\* fetcher f is at position pos; this step fetches only inside createContainer
FetchAt(f, pos) ==
    /\ fetchPc[f] = pos
    /\ f = "step" => pc = "image"

FetchFail(f, e) ==
    /\ fetchPc' = [fetchPc EXCEPT ![f] = "failed"]
    /\ fetchErr' = [fetchErr EXCEPT ![f] = e]

FetchGoto(f, pos) ==
    /\ fetchPc' = [fetchPc EXCEPT ![f] = pos]
    /\ UNCHANGED fetchErr

\* tracker.Init of the check session, then checkingResource.Check(source, nil)
ImageCheck(f) ==
    /\ FetchAt(f, "check")
    /\ \E outcome \in {"init-error", "check-error", "empty", "versions"} :
          IF outcome = "init-error" THEN FetchFail(f, Err("TrackerInitError"))
          ELSE IF outcome = "check-error" THEN FetchFail(f, Err("CheckError"))
          ELSE IF outcome = "empty" THEN FetchFail(f, ErrImageUnavailable)
          ELSE FetchGoto(f, "cache")
    /\ UNCHANGED <<runs, handlerVars, poolVars, placeVars, sourceQuery, configVars, containers,
                   selectVars, stepVars, cacheInitialized, getCount>>

\* mutation: the cache is always taken for uninitialized
isInitialized_Never(w) == FALSE

\* isInitialized, err := cache.IsInitialized()
isInitialized(w) == cacheInitialized[w]

\* tracker.InitWithCache for (type, source, versions[0]), then cache.IsInitialized()
ImageInitWithCache(f) ==
    /\ FetchAt(f, "cache")
    /\ \E outcome \in {"init-error", "initialized-error", "ok"} :
          IF outcome = "init-error" THEN FetchFail(f, Err("InitWithCacheError"))
          ELSE IF outcome = "initialized-error" THEN FetchFail(f, Err("IsInitializedError"))
          ELSE IF isInitialized(fetchWorker(f)) THEN FetchGoto(f, "done")
          ELSE FetchGoto(f, "get")
    /\ UNCHANGED <<runs, handlerVars, poolVars, placeVars, sourceQuery, configVars, containers,
                   selectVars, stepVars, cacheInitialized, getCount>>

\* versionedSource := getResource.Get(...); versionedSource.Run is entered
ImageGetStart(f) ==
    /\ FetchAt(f, "get")
    /\ FetchGoto(f, "getting")
    /\ UNCHANGED <<runs, handlerVars, poolVars, placeVars, sourceQuery, configVars, containers,
                   selectVars, stepVars, cacheInitialized, getCount>>

\* versionedSource.Run returns
ImageGetFinish(f) ==
    /\ FetchAt(f, "getting")
    /\ \E ok \in BOOLEAN :
          IF ok
          THEN /\ FetchGoto(f, "initialize")
               /\ getCount' = [getCount EXCEPT ![fetchWorker(f)] = @ + 1]
          ELSE /\ FetchFail(f, Err("GetError"))
               /\ UNCHANGED getCount
    /\ UNCHANGED <<runs, handlerVars, poolVars, placeVars, sourceQuery, configVars, containers,
                   selectVars, stepVars, cacheInitialized>>

\* cache.Initialize(); return getResource, nil
ImageInitialize(f) ==
    /\ FetchAt(f, "initialize")
    /\ cacheInitialized' = [cacheInitialized EXCEPT ![fetchWorker(f)] = TRUE]
    /\ FetchGoto(f, "done")
    /\ UNCHANGED <<runs, handlerVars, poolVars, placeVars, sourceQuery, configVars, containers,
                   selectVars, stepVars, getCount>>

\* createContainer: getContainerImage returned an error
ImageFailed ==
    /\ pc = "image"
    /\ fetchPc["step"] = "failed"
    /\ Return(fetchErr["step"])
    /\ stepContainer' = 0
    /\ log' = Append(log, Ev("getContainerImage", <<"error">>))
    /\ UNCHANGED <<runs, handlerVars, poolVars, placeVars, sourceQuery, configVars, containers,
                   selectVars, imageVars, stepProcess, exitStatus, registered,
                   ready, signals>>

\* createContainer: imageVolume, found, err := imageResource.CacheVolume()
ImageFetched ==
    /\ pc = "image"
    /\ fetchPc["step"] = "done"
    /\ \E outcome \in {"error", "not-found", "found"} :
          IF outcome = "found"
          THEN /\ pc' = "create"
               /\ UNCHANGED <<result, stepContainer>>
          ELSE /\ Return(Err(IF outcome = "error" THEN "CacheVolumeError"
                             ELSE "ErrImageGetDidNotProduceVolume"))
               /\ stepContainer' = 0
    /\ fetchPc' = [fetchPc EXCEPT !["step"] = "check"]
    /\ log' = Append(log, Ev("getContainerImage", <<"ok">>))
    /\ UNCHANGED <<runs, handlerVars, poolVars, placeVars, sourceQuery, configVars, containers,
                   selectVars, fetchErr, cacheInitialized, getCount, stepProcess,
                   exitStatus, registered, ready, signals>>

InitImageIdle ==
    /\ fetchPc = [f \in Fetchers |-> "idle"]
    /\ fetchErr = [f \in Fetchers |-> NoError]
    /\ cacheInitialized = [w \in Workers |-> FALSE]
    /\ getCount = [w \in Workers |-> 0]

\* ------------------------------------------- CreateJobBuild (manual trigger)
JobNames == {"unit", "deploy", "ship"}
\* a name config.Jobs does not hold: Lookup returns the zero JobConfig, not found
JobAbsent == [configured |-> FALSE, DisableManualTrigger |-> FALSE]
\* a configured job and its disable_manual_trigger flag
JobConfig(disable) == [configured |-> TRUE, DisableManualTrigger |-> disable]
JobConfigs == {JobConfig(d) : d \in BOOLEAN}

StatusOK == 200
StatusNotFound == 404
StatusConflict == 409
StatusInternalServerError == 500
NoResponse == [status |-> 0, body |-> ""]

\* config.Jobs.Lookup(jobName)
Lookup(name) == [job |-> jobs[name], found |-> jobs[name].configured]

\* the handler refuses the job: job.DisableManualTrigger
refusesManualTrigger_Never(job) == FALSE
refusesManualTrigger(job) == job.DisableManualTrigger

Respond(status, body) ==
    /\ response' = [status |-> status, body |-> body]
    /\ handlerPc' = "done"

\* lines 17-30: look the job up, 404 when unknown, 409 when manual
\* triggering is disabled
HandlerLookup ==
    /\ handlerPc = "lookup"
    /\ LET l == Lookup(jobName) IN
         IF ~l.found THEN Respond(StatusNotFound, "")
         ELSE IF refusesManualTrigger(l.job) THEN Respond(StatusConflict, "")
         ELSE handlerPc' = "types" /\ UNCHANGED response
    /\ UNCHANGED <<runs, poolVars, placeVars, sourceQuery, configVars, containers, selectVars,
                   stepVars, imageVars, jobs, jobName, triggerCalls, builds>>

\* lines 32-39: build the scheduler, read the pipeline's resource types
HandlerResourceTypes ==
    /\ handlerPc = "types"
    /\ \E ok \in BOOLEAN :
         IF ok THEN handlerPc' = "trigger" /\ UNCHANGED response
         ELSE Respond(StatusInternalServerError, "")
    /\ UNCHANGED <<runs, poolVars, placeVars, sourceQuery, configVars, containers, selectVars,
                   stepVars, imageVars, jobs, jobName, triggerCalls, builds>>

\* lines 41-49: scheduler.TriggerImmediately; the build is written as JSON
HandlerTrigger ==
    /\ handlerPc = "trigger"
    /\ triggerCalls' = triggerCalls + 1
    /\ \E ok \in BOOLEAN :
         IF ok THEN /\ builds' = Append(builds, jobName)
                    /\ Respond(StatusOK, "build")
         ELSE /\ UNCHANGED builds
              /\ Respond(StatusInternalServerError, "failed to trigger")
    /\ UNCHANGED <<runs, poolVars, placeVars, sourceQuery, configVars, containers, selectVars,
                   stepVars, imageVars, jobs, jobName>>

InitHandlerIdle ==
    /\ jobs = [n \in JobNames |-> JobAbsent]
    /\ jobName = "unit"
    /\ handlerPc = "idle"
    /\ response = NoResponse
    /\ triggerCalls = 0
    /\ builds = <<>>

\* ------------------------------------------- VolumeOn of registered sources
NoVolume == [volume |-> <<>>, found |-> FALSE, err |-> FALSE]

\* TaskStep.VolumeOn returns nothing
TaskStepVolumeOn(w) == NoVolume

\* what baggageclaimClient.LookupVolume(handle) can answer on worker w: the
\* volume lives on one worker, where it is found until it expires
LookupVolumeOutcomes(w, handle) ==
    IF handle[3] = w THEN {"found", "absent", "error"} ELSE {"absent", "error"}

\* mutation: the handle is taken for a volume of whatever worker is asked
containerSourceVolumeOn_AnyWorker(src, w, lookup) ==
    IF Len(src.volumeHandle) > 0 /\ hasVM[w]
    THEN [volume |-> src.volumeHandle, found |-> TRUE, err |-> FALSE]
    ELSE NoVolume

\* containerSource.VolumeOn(w); lookup is LookupVolume's answer
containerSourceVolumeOn(src, w, lookup) ==
    IF Len(src.volumeHandle) > 0 /\ hasVM[w]
    THEN IF lookup = "error" THEN [volume |-> <<>>, found |-> FALSE, err |-> TRUE]
         ELSE IF lookup = "found"
              THEN [volume |-> src.volumeHandle, found |-> TRUE, err |-> FALSE]
              ELSE NoVolume
    ELSE NoVolume

NoQuery ==
    [name |-> None, worker |-> NoWorker, lookup |-> None, answer |-> NoVolume]

\* once the step is released, a later step calls VolumeOn(w) on one of the
\* sources the step registered
SourceVolumeOn ==
    /\ pc = "released"
    /\ sourceQuery = NoQuery
    /\ \E name \in SourceNames, w \in Workers :
          /\ registered[name].kind # "none"
          /\ IF registered[name].kind = "TaskStep"
             THEN sourceQuery' = [name |-> name, worker |-> w, lookup |-> None,
                                  answer |-> TaskStepVolumeOn(w)]
             ELSE IF Len(registered[name].volumeHandle) = 0
             THEN sourceQuery' = [name |-> name, worker |-> w, lookup |-> None,
                                  answer |-> containerSourceVolumeOn(registered[name], w, None)]
             ELSE \E lookup \in LookupVolumeOutcomes(w, registered[name].volumeHandle) :
                     sourceQuery' = [name |-> name, worker |-> w, lookup |-> lookup,
                         answer |-> containerSourceVolumeOn(registered[name], w, lookup)]
    /\ UNCHANGED <<runs, handlerVars, imageVars, poolVars, placeVars, configVars, containers, selectVars,
                   pc, stepContainer, stepProcess, exitStatus, registered, ready,
                   signals, result, log>>

\* ------------------------------------------------------------- environment
\* Run reads the signals channel and the result of process.Wait() only in its
\* select, so a signal or an exit that happens earlier is seen there and is
\* modelled as happening while Run waits.

\* the cancellation signal is sent on the signals channel
Signal ==
    /\ pc = "wait"
    /\ signals = "none"
    /\ signals' = "pending"
    /\ UNCHANGED <<runs, handlerVars, imageVars, poolVars, placeVars, sourceQuery, configVars, containers, selectVars, pc, stepContainer,
                   stepProcess, exitStatus, registered, ready, result, log>>

\* the in-container process exits with a status
ProcessExits ==
    \E c \in {stepContainer} \ {0}, status \in ExitCodes :
        /\ pc = "wait"
        /\ containers[c].process.state = "running"
        /\ containers' = [containers EXCEPT ![c].process.state = "exited",
                                            ![c].process.status = status]
        /\ UNCHANGED <<runs, handlerVars, imageVars, poolVars, placeVars, sourceQuery, configVars, selectVars, stepVars>>

\* the container dies: process.Wait() fails
ContainerDies ==
    \E c \in {stepContainer} \ {0} :
        /\ pc = "wait"
        /\ containers[c].process.state = "running"
        /\ containers' = [containers EXCEPT ![c].process.state = "dead"]
        /\ UNCHANGED <<runs, handlerVars, imageVars, poolVars, placeVars, sourceQuery, configVars, selectVars, stepVars>>

InitSelection ==
    /\ compatibleWorkers = <<>>
    /\ chosenWorker = NoWorker
    /\ inputMounts = <<>>
    /\ inputsToStream = <<>>
    /\ outputMounts = <<>>
    /\ volumeLog = <<>>

InitStep ==
    /\ pc = "fetch"
    /\ stepContainer = 0
    /\ stepProcess = <<>>
    /\ exitStatus = 0
    /\ registered = EmptyRepo
    /\ ready = 0
    /\ signals = "none"
    /\ result = NoError
    /\ log = <<>>

\* the executor restarts: a new TaskStep is built and Run is called again
Restart ==
    /\ runs < MaxRuns
    /\ runs' = runs + 1
    /\ pc' = "fetch"
    /\ stepContainer' = 0
    /\ stepProcess' = <<>>
    /\ exitStatus' = 0
    /\ registered' = EmptyRepo
    /\ ready' = 0
    /\ signals' = "none"
    /\ result' = NoError
    /\ log' = <<>>
    /\ compatibleWorkers' = <<>>
    /\ chosenWorker' = NoWorker
    /\ inputMounts' = <<>>
    /\ inputsToStream' = <<>>
    /\ outputMounts' = <<>>
    /\ volumeLog' = <<>>
    /\ sourceQuery' = NoQuery
    /\ UNCHANGED <<poolVars, placeVars, configVars, containers, imageVars, handlerVars>>

\* ------------------------------------- pool.FindOrCreateBuildContainer
\* the workers a placement call can meet: one more than the task step's, so
\* that a best worker, a second-best worker and an empty worker exist together
PlacementWorkers == 1..(NumWorkers + 1)

\* err.Error() as the words it is made of
MaxContainersMessage == "worker already has the maximum number of active containers"

CreateOutcomes == {"ok", "max", "other"}

\* the error worker.FindOrCreateBuildContainer returns, nil when it succeeds
CreateError(outcome) ==
    IF outcome = "max" THEN <<"create container:", MaxContainersMessage>>
    ELSE IF outcome = "other" THEN <<"create container:", "disk quota exceeded">>
    ELSE <<>>

\* mutation: every creation error is taken for saturation
isMaxContainersError_Any(e) == Len(e) > 0

\* err != nil && strings.Contains(err.Error(), "worker already has the maximum ...")
isMaxContainersError(e) ==
    Len(e) > 0 /\ \E k \in 1..Len(e) : e[k] = MaxContainersMessage

NoPlacement == [err |-> <<>>, container |-> NoWorker]

PlacementErr(e) == [err |-> e, container |-> NoWorker]

\* the container created on worker w
PlacementOk(w) == [err |-> <<>>, container |-> w]

\* worker, found, err := pool.provider.FindWorkerForBuildContainer(...)
LookupAnswers ==
    {[err |-> <<"find worker failed">>, found |-> FALSE, worker |-> NoWorker],
     [err |-> <<>>, found |-> FALSE, worker |-> NoWorker]}
    \cup {[err |-> <<>>, found |-> TRUE, worker |-> w] : w \in PlacementWorkers}

\* mutation: the lookup error is not looked at
lookupFailed_Ignored(answer) == FALSE

\* if err != nil { return nil, err }
lookupFailed(answer) == Len(answer.err) > 0

\* the inner loop over spec.Inputs: [err, count]
RECURSIVE candidateInputCount(_, _, _, _)
candidateInputCount(ins, k, w, count) ==
    IF k > Len(ins) THEN [err |-> FALSE, count |-> count]
    ELSE IF volOn[ins[k]][w] = "error" THEN [err |-> TRUE, count |-> 0]
    ELSE candidateInputCount(ins, k + 1, w,
             IF volOn[ins[k]][w] = "found" THEN count + 1 ELSE count)

\* mutation: the highest count is never raised
raisesHighest_Never(count, highestCount) == FALSE

\* if candidateInputCount >= highestCount
raisesHighest(count, highestCount) == count >= highestCount

\* the loop over compatibleWorkers filling workersByCount; [err, workers]
RECURSIVE workersByCountLoop(_, _, _, _, _)
workersByCountLoop(ws, k, ins, workersByCount, highestCount) ==
    IF k > Len(ws)
    THEN [err |-> FALSE, workers |-> workersByCount[highestCount]]
    ELSE LET c == candidateInputCount(ins, 1, ws[k], 0)
         IN  IF c.err THEN [err |-> TRUE, workers |-> <<>>]
             ELSE workersByCountLoop(ws, k + 1, ins,
                      [workersByCount EXCEPT ![c.count] = Append(@, ws[k])],
                      IF raisesHighest(c.count, highestCount)
                      THEN c.count ELSE highestCount)

workersWithHighestCount(ws, ins) ==
    workersByCountLoop(ws, 1, ins, [n \in 0..Len(ins) |-> <<>>], 0)

PlaceReturn(r) ==
    /\ placePc' = "returned"
    /\ placeResult' = r

\* worker, found, err := pool.provider.FindWorkerForBuildContainer(...)
PlaceFindWorker ==
    /\ placePc = "find"
    /\ \E answer \in LookupAnswers :
          /\ placeLog' = Append(placeLog, Ev("FindWorkerForBuildContainer", answer.err))
          /\ IF lookupFailed(answer)
             THEN /\ PlaceReturn(PlacementErr(answer.err))
                  /\ UNCHANGED placeHost
             ELSE IF answer.found
             THEN /\ placeHost' = answer.worker
                  /\ placePc' = "delegate"
                  /\ UNCHANGED placeResult
             ELSE /\ placePc' = "allsat"
                  /\ UNCHANGED <<placeHost, placeResult>>
    /\ UNCHANGED <<runs, handlerVars, imageVars, poolVars, configVars, containers, selectVars, stepVars, sourceQuery,
                   placeCompat, placeWorkers>>

\* if found { return worker.FindOrCreateBuildContainer(...) }
PlaceDelegate ==
    /\ placePc = "delegate"
    /\ \E outcome \in CreateOutcomes :
          /\ placeLog' = Append(placeLog,
                 Ev("FindOrCreateBuildContainer", <<placeHost, outcome>>))
          /\ PlaceReturn(IF outcome = "ok" THEN PlacementOk(placeHost)
                         ELSE PlacementErr(CreateError(outcome)))
    /\ UNCHANGED <<runs, handlerVars, imageVars, poolVars, configVars, containers, selectVars, stepVars, sourceQuery,
                   placeHost, placeCompat, placeWorkers>>

\* compatibleWorkers, err := pool.AllSatisfying(logger, spec.WorkerSpec(), resourceTypes)
PlaceAllSatisfying ==
    /\ placePc = "allsat"
    /\ LET got == AllSatisfying(running, poolSpec, providerFails)
       IN  IF got.err # None
           THEN /\ PlaceReturn(PlacementErr(<<got.err>>))
                /\ UNCHANGED placeCompat
           ELSE /\ placeCompat' = got.workers
                /\ placePc' = "count"
                /\ UNCHANGED placeResult
    /\ placeLog' = Append(placeLog, Ev("RunningWorkers", <<>>))
    /\ UNCHANGED <<runs, handlerVars, imageVars, poolVars, configVars, containers, selectVars, stepVars, sourceQuery,
                   placeHost, placeWorkers>>

\* the counting loop and workers := workersByCount[highestCount]
PlaceCount ==
    /\ placePc = "count"
    /\ LET best == workersWithHighestCount(placeCompat, inputs)
       IN  IF best.err
           THEN /\ PlaceReturn(PlacementErr(<<"VolumeOnError">>))
                /\ UNCHANGED placeWorkers
           ELSE /\ placeWorkers' = best.workers
                /\ placePc' = "attempt"
                /\ UNCHANGED placeResult
    /\ placeLog' = Append(placeLog, Ev("VolumeOn", <<>>))
    /\ UNCHANGED <<runs, handlerVars, imageVars, poolVars, configVars, containers, selectVars, stepVars, sourceQuery,
                   placeHost, placeCompat>>

\* mutation: a skipped candidate stays at the head of the candidates
restOf_Same(ws) == ws

\* for _, worker := range workers: the candidates after the one just tried
restOf(ws) == Tail(ws)

\* findWorkerNotRunningVTXTask: one turn of the loop over workers, or its end
PlaceAttempt ==
    /\ placePc = "attempt"
    /\ IF Len(placeWorkers) = 0
       THEN /\ PlaceReturn(PlacementErr(
                   <<"failed to create container on all compatible workers">>))
            /\ UNCHANGED <<placeWorkers, placeLog>>
       ELSE \E outcome \in CreateOutcomes :
               /\ placeLog' = Append(placeLog,
                      Ev("FindOrCreateBuildContainer", <<Head(placeWorkers), outcome>>))
               /\ IF isMaxContainersError(CreateError(outcome))
                  THEN /\ placeWorkers' = restOf(placeWorkers)
                       /\ UNCHANGED <<placePc, placeResult>>
                  ELSE /\ PlaceReturn(IF Len(CreateError(outcome)) > 0
                                      THEN PlacementErr(CreateError(outcome))
                                      ELSE PlacementOk(Head(placeWorkers)))
                       /\ UNCHANGED placeWorkers
    /\ UNCHANGED <<runs, handlerVars, imageVars, poolVars, configVars, containers, selectVars, stepVars, sourceQuery,
                   placeHost, placeCompat>>

InitPlaceIdle ==
    /\ InitImageIdle
    /\ InitHandlerIdle
    /\ sourceQuery = NoQuery
    /\ placePc = "idle"
    /\ placeHost = NoWorker
    /\ placeCompat = <<>>
    /\ placeWorkers = <<>>
    /\ placeResult = NoPlacement
    /\ placeLog = <<>>

\* ------------------------------------------------------------ specifications
NoVolumes == [i \in InputNames |-> [w \in Workers |-> "absent"]]

InitPoolIdle ==
    /\ running = [k \in 1..NumWorkers |-> k]
    /\ providerFails = FALSE
    /\ ownedByTeam = [w \in Workers |-> FALSE]
    /\ satisfies = [w \in Workers |-> WorkerSpecs]
    /\ poolSpec = "linux"
    /\ poolPc = "idle"
    /\ poolResult = PoolOk(NoWorkers)

Init ==
    /\ InitPoolIdle
    /\ inputs = <<"A">>
    /\ inRepo = {"A"}
    /\ \E on \in {{}, {1}} :
          volOn = [NoVolumes EXCEPT !["A"] =
                      [w \in Workers |-> IF w \in on THEN "found" ELSE "absent"]]
    /\ \E vm \in {{}, {1}, Workers} : hasVM = [w \in Workers |-> w \in vm]
    /\ imageResource = FALSE
    /\ outputs \in {<<>>, <<"x", "y">>}
    /\ containers = <<>>
    /\ InitSelection
    /\ InitStep
    /\ runs = 1
    /\ InitPlaceIdle

Next ==
    \/ FetchConfig
    \/ FindContainerForIdentifier
    \/ Recover
    \/ CallAllSatisfying
    \/ ChooseWorker
    \/ CreateOutputVolumes
    \/ CreateContainer
    \/ EnsureBuildDirExists
    \/ StreamInputs
    \/ SetupOutputs
    \/ RunProcess
    \/ SetTaskProcess
    \/ CloseReady
    \/ SelectSignal
    \/ StopContainer
    \/ SelectExitStatus
    \/ SetExitStatus
    \/ SelectWaitErr
    \/ Release
    \/ Signal
    \/ ProcessExits
    \/ ContainerDies
    \/ Restart

Spec == Init /\ [][Next]_vars

\* ---------------------------------------------------- SpecPool: pool calls
\* pool.AllSatisfying(logger, spec, resourceTypes)
PoolAllSatisfying ==
    /\ poolPc = "call"
    /\ poolResult' = AllSatisfying(running, poolSpec, providerFails)
    /\ poolPc' = "done"
    /\ UNCHANGED <<running, providerFails, ownedByTeam, satisfies, poolSpec,
                   configVars, containers, selectVars, stepVars, runs, placeVars,
                   sourceQuery, imageVars, handlerVars>>

\* rand.Intn(n)
randIntn(n) == 0..(n - 1)

\* mutation: any running worker may be picked
SatisfyingOutcomes_AnyRunning(workers, spec, provErr) ==
    LET all == AllSatisfying(workers, spec, provErr)
    IN  IF all.err # None THEN {all}
        ELSE {PoolOk(<<workers[k + 1]>>) : k \in randIntn(Len(workers))}

\* what pool.Satisfying may return: AllSatisfying's error, or the worker at a
\* random index of its list
SatisfyingOutcomes(workers, spec, provErr) ==
    LET compatible == AllSatisfying(workers, spec, provErr)
    IN  IF compatible.err # None THEN {compatible}
        ELSE {PoolOk(<<compatible.workers[k + 1]>>) :
                  k \in randIntn(Len(compatible.workers))}

\* pool.Satisfying(logger, spec, resourceTypes)
PoolSatisfying ==
    /\ poolPc = "call"
    /\ poolResult' \in SatisfyingOutcomes(running, poolSpec, providerFails)
    /\ poolPc' = "satisfied"
    /\ UNCHANGED <<running, providerFails, ownedByTeam, satisfies, poolSpec,
                   configVars, containers, selectVars, stepVars, runs, placeVars,
                   sourceQuery, imageVars, handlerVars>>

InitConfigIdle ==
    /\ inputs = <<>>
    /\ outputs = <<>>
    /\ inRepo = {}
    /\ volOn = NoVolumes
    /\ hasVM = [w \in Workers |-> TRUE]
    /\ imageResource = FALSE

InitPool ==
    /\ running \in DistinctSeqs(Workers)
    /\ providerFails \in BOOLEAN
    /\ ownedByTeam \in [Workers -> BOOLEAN]
    /\ satisfies \in [Workers -> SUBSET WorkerSpecs]
    /\ poolSpec \in WorkerSpecs
    /\ poolPc = "call"
    /\ poolResult = PoolOk(NoWorkers)
    /\ InitConfigIdle
    /\ containers = <<>>
    /\ InitSelection
    /\ InitStep
    /\ runs = 1
    /\ InitPlaceIdle

NextPool ==
    \/ PoolAllSatisfying
    \/ PoolSatisfying

SpecPool == InitPool /\ [][NextPool]_vars

\* ------------------------------------- SpecSelect: TaskStep.createContainer
\* createContainer(compatibleWorkers, config, signals) entered with every
\* worker list, input list, repository content and volume layout
InitSelect ==
    /\ InitPoolIdle
    /\ inputs \in {<<>>, <<"A">>, <<"A", "B">>}
    /\ inRepo \in SUBSET Range(inputs)
    /\ volOn \in [InputNames -> [Workers -> {"found", "absent", "error"}]]
    /\ \A i \in InputNames \ inRepo : volOn[i] = NoVolumes[i]
    /\ hasVM \in [Workers -> BOOLEAN]
    /\ imageResource = FALSE
    /\ outputs \in {<<>>, <<"x">>}
    /\ containers = <<>>
    /\ \E n \in 1..NumWorkers : compatibleWorkers = [k \in 1..n |-> k]
    /\ chosenWorker = NoWorker
    /\ inputMounts = <<>>
    /\ inputsToStream = <<>>
    /\ outputMounts = <<>>
    /\ volumeLog = <<>>
    /\ pc = "choose"
    /\ stepContainer = 0
    /\ stepProcess = <<>>
    /\ exitStatus = 0
    /\ registered = EmptyRepo
    /\ ready = 0
    /\ signals = "none"
    /\ result = NoError
    /\ log = <<>>
    /\ runs = 1
    /\ InitPlaceIdle

NextSelect ==
    \/ ChooseWorker
    \/ CreateOutputVolumes
    \/ CreateContainer
    \/ EnsureBuildDirExists
    \/ StreamInputs

SpecSelect == InitSelect /\ [][NextSelect]_vars

\* ------------------------- SpecPlace: pool.FindOrCreateBuildContainer
\* one call, entered with every worker list and every layout of the volumes of
\* spec.Inputs; VolumeOn may fail for the first input on the first worker
InitPlace ==
    /\ running \in DistinctSeqs(PlacementWorkers)
    /\ providerFails = FALSE
    /\ ownedByTeam = [w \in PlacementWorkers |-> FALSE]
    /\ satisfies = [w \in PlacementWorkers |-> WorkerSpecs]
    /\ poolSpec = "linux"
    /\ poolPc = "idle"
    /\ poolResult = PoolOk(NoWorkers)
    /\ inputs = <<"A", "B">>
    /\ outputs = <<>>
    /\ inRepo = {"A", "B"}
    /\ \E layout \in [InputNames -> [PlacementWorkers -> {"found", "absent"}]],
          fails \in BOOLEAN :
          volOn = IF fails THEN [layout EXCEPT !["A"][1] = "error"] ELSE layout
    /\ hasVM = [w \in PlacementWorkers |-> TRUE]
    /\ imageResource = FALSE
    /\ containers = <<>>
    /\ InitSelection
    /\ InitStep
    /\ runs = 1
    /\ placePc = "find"
    /\ placeHost = NoWorker
    /\ placeCompat = <<>>
    /\ placeWorkers = <<>>
    /\ placeResult = NoPlacement
    /\ placeLog = <<>>
    /\ sourceQuery = NoQuery
    /\ InitImageIdle
    /\ InitHandlerIdle

NextPlace ==
    \/ PlaceFindWorker
    \/ PlaceDelegate
    \/ PlaceAllSatisfying
    \/ PlaceCount
    \/ PlaceAttempt

SpecPlace == InitPlace /\ [][NextPlace]_vars

\* ----------------------- SpecSource: one Run, then VolumeOn on its sources
\* a single Run and Release of the step, after which a later step asks the
\* registered sources for their volumes
NextSource ==
    \/ FetchConfig
    \/ FindContainerForIdentifier
    \/ CallAllSatisfying
    \/ ChooseWorker
    \/ CreateOutputVolumes
    \/ CreateContainer
    \/ EnsureBuildDirExists
    \/ StreamInputs
    \/ SetupOutputs
    \/ RunProcess
    \/ SetTaskProcess
    \/ CloseReady
    \/ SelectSignal
    \/ StopContainer
    \/ SelectExitStatus
    \/ SetExitStatus
    \/ SelectWaitErr
    \/ Release
    \/ Signal
    \/ ProcessExits
    \/ ContainerDies
    \/ SourceVolumeOn

SpecSource == Init /\ [][NextSource]_vars

\* ------------------ SpecImage: createContainer with an image resource
\* createContainer of a step whose config names an image resource, while
\* another step fetches the same image on worker OtherWorker; the cache of a
\* worker may be initialized already
InitImage ==
    /\ InitPoolIdle
    /\ inputs = <<"A">>
    /\ inRepo = {"A"}
    /\ \E on \in SUBSET Workers :
          volOn = [NoVolumes EXCEPT !["A"] =
                      [w \in Workers |-> IF w \in on THEN "found" ELSE "absent"]]
    /\ hasVM \in [Workers -> BOOLEAN]
    /\ imageResource = TRUE
    /\ outputs \in {<<>>, <<"x">>}
    /\ containers = <<>>
    /\ \E n \in 1..NumWorkers : compatibleWorkers = [k \in 1..n |-> k]
    /\ chosenWorker = NoWorker
    /\ inputMounts = <<>>
    /\ inputsToStream = <<>>
    /\ outputMounts = <<>>
    /\ volumeLog = <<>>
    /\ pc = "choose"
    /\ stepContainer = 0
    /\ stepProcess = <<>>
    /\ exitStatus = 0
    /\ registered = EmptyRepo
    /\ ready = 0
    /\ signals = "none"
    /\ result = NoError
    /\ log = <<>>
    /\ runs = 1
    /\ placePc = "idle"
    /\ placeHost = NoWorker
    /\ placeCompat = <<>>
    /\ placeWorkers = <<>>
    /\ placeResult = NoPlacement
    /\ placeLog = <<>>
    /\ sourceQuery = NoQuery
    /\ fetchPc = [f \in Fetchers |-> "check"]
    /\ fetchErr = [f \in Fetchers |-> NoError]
    /\ cacheInitialized \in [Workers -> BOOLEAN]
    /\ getCount = [w \in Workers |-> 0]
    /\ InitHandlerIdle

NextImage ==
    \/ ChooseWorker
    \/ CreateOutputVolumes
    \/ \E f \in Fetchers : ImageCheck(f)
    \/ \E f \in Fetchers : ImageInitWithCache(f)
    \/ \E f \in Fetchers : ImageGetStart(f)
    \/ \E f \in Fetchers : ImageGetFinish(f)
    \/ \E f \in Fetchers : ImageInitialize(f)
    \/ ImageFailed
    \/ ImageFetched
    \/ CreateContainer

SpecImage == InitImage /\ [][NextImage]_vars

\* ------------------------------------------------------------------ claims
PoolReturned == poolPc = "done" /\ ~providerFails

TeamMatches == {w \in Range(running) : poolSpec \in satisfies[w] /\ ownedByTeam[w]}

GeneralMatches == {w \in Range(running) : poolSpec \in satisfies[w] /\ ~ownedByTeam[w]}

ReturnsExactly(S) ==
    /\ poolResult.err = None
    /\ Range(poolResult.workers) = S
    /\ Len(poolResult.workers) = Cardinality(S)

FailsNoCompatible ==
    /\ poolResult.err = "NoCompatibleWorkersError"
    /\ poolResult.Spec = poolSpec
    /\ poolResult.Workers = running

TenantPreference ==
    IF TeamMatches # {} THEN ReturnsExactly(TeamMatches)
    ELSE IF GeneralMatches # {} THEN ReturnsExactly(GeneralMatches)
    ELSE FailsNoCompatible

\* C1 as stated: for every worker list the provider returns, AllSatisfying
\* gives the team-owned matches if there are any, else the general matches if
\* there are any, else NoCompatibleWorkersError with the spec and the list.
C1_EveryWorkerList == PoolReturned => TenantPreference

\* C1 amended: the same rule for every non-empty worker list (an empty list
\* is answered with ErrNoWorkers instead).
C1_TenantPreference == (PoolReturned /\ Len(running) > 0) => TenantPreference

C1_Witness == PoolReturned /\ TeamMatches # {} /\ GeneralMatches # {}

\* the number of declared inputs that have a volume on worker w
MountCount(w) ==
    Cardinality({k \in 1..Len(inputs) : volOn[inputs[k]][w] = "found"})

HasChosen == pc \in {"outvols", "create", "builddir"}

\* C2: the worker createContainer chooses from the list it was given has at
\* least as many declared inputs with a volume on it as any other worker of
\* that list.
C2_VolumeAffinity ==
    HasChosen =>
        /\ chosenWorker \in Range(compatibleWorkers)
        /\ Len(inputMounts) = MountCount(chosenWorker)
        /\ \A w \in Range(compatibleWorkers) : MountCount(chosenWorker) >= MountCount(w)

C2_Witness ==
    /\ pc = "create"
    /\ Len(compatibleWorkers) >= 2
    /\ chosenWorker # compatibleWorkers[Len(compatibleWorkers)]
    /\ \E w \in Range(compatibleWorkers) : MountCount(w) < MountCount(chosenWorker)

\* ---------------------------------------------------- claims on TaskStep.Run
Done == pc \in {"returned", "released"}

HasEvent(op) == \E k \in 1..Len(log) : log[k].op = op

HasEntry(e) == \E k \in 1..Len(log) : log[k] = e

CountEvents(op) == Cardinality({k \in 1..Len(log) : log[k].op = op})

\* the log of Run alone: the entry of a later Release is dropped
RunLog ==
    IF Len(log) > 0 /\ log[Len(log)].op = "Release"
    THEN SubSeq(log, 1, Len(log) - 1)
    ELSE log

FoundContainer == HasEntry(Ev("FindContainerForIdentifier", <<"found">>))

WroteExitStatus == HasEntry(Ev("SetProperty", <<ExitStatusProp>>))

\* this Run found a container that already carried concourse:exit-status
RecoveryRun ==
    /\ FoundContainer
    /\ HasProperty(stepContainer, ExitStatusProp)
    /\ ~WroteExitStatus

\* C3: a Run that finds a container carrying concourse:exit-status creates no
\* container and no volume, starts or attaches to no process, writes no
\* property, never closes ready, returns success, and ends with the status and
\* the registered sources of the run that completed in that container.
C3_RecoveryIdempotent ==
    (Done /\ RecoveryRun) =>
        LET c == containers[stepContainer]
        IN  /\ result = NoError
            /\ c.outcome.done
            /\ exitStatus = c.outcome.status
            /\ registered = c.outcome.registered
            /\ c.exitStatusWrites = 1
            /\ stepProcess = <<>>
            /\ ready = 0
            /\ \A k \in 1..Len(log) :
                   log[k].op \notin {"CreateContainer", "CreateVolume", "Run",
                                     "Attach", "SetProperty"}

C3_Witness ==
    /\ Done
    /\ RecoveryRun
    /\ exitStatus = 12
    /\ registered["x"].kind = "containerSource"
    /\ registered["x"].volumeHandle # <<>>

ReattachRun == FoundContainer /\ HasEvent("Attach")

\* C4: a Run that finds a container with concourse:task-process P and no
\* concourse:exit-status creates no container and no volume and calls no Run;
\* it calls Attach with P, the id of the process started in that container;
\* once attached it closes ready and waits on that process; when it takes the
\* exit it has registered the sources and holds the process's status, and when
\* it returns success the status is stored in concourse:exit-status.
C4_Reattach ==
    ReattachRun =>
        LET c == containers[stepContainer]
            k == CHOOSE j \in 1..Len(log) : log[j].op = "Attach"
        IN  /\ CountEvents("Attach") = 1
            /\ log[k].arg = c.props[TaskProcessProp]
            /\ log[k].arg = c.process.id
            /\ \A j \in 1..Len(log) :
                   log[j].op \notin {"CreateContainer", "CreateVolume", "Run"}
            /\ pc \in {"ready", "wait", "stop", "setexit", "returned", "released"}
            /\ pc \in {"wait", "stop", "setexit"} =>
                   (stepProcess = c.process.id /\ ready = 1)
            /\ (pc = "setexit" \/ (Done /\ result = NoError)) =>
                   /\ c.process.state = "exited"
                   /\ exitStatus = c.process.status
                   /\ HasEvent("registerSource")
            /\ (Done /\ result = NoError) =>
                   /\ HasProperty(stepContainer, ExitStatusProp)
                   /\ c.props[ExitStatusProp] = Sprintf_d(c.process.status)

C4_Witness ==
    /\ Done
    /\ ReattachRun
    /\ result = NoError
    /\ exitStatus = 12
    /\ registered["x"].kind = "containerSource"

\* C5: whenever Run has returned and the process of its container has exited
\* with status E (the write of the property itself not having failed),
\* concourse:exit-status holds the decimal string of E.
C5_ExitStatusRecorded ==
    (/\ Done
     /\ stepContainer # 0
     /\ containers[stepContainer].process.state = "exited"
     /\ result.err # "SetPropertyError") =>
        /\ HasProperty(stepContainer, ExitStatusProp)
        /\ Property(stepContainer, ExitStatusProp) =
               Sprintf_d(containers[stepContainer].process.status)

\* C6: concourse:exit-status is written at most once per container, and once
\* set it keeps the value of its first write, over all Run invocations.
C6_ExitStatusImmutable ==
    \A c \in 1..Len(containers) :
        /\ containers[c].exitStatusWrites <= 1
        /\ HasProperty(c, ExitStatusProp) = (containers[c].exitStatusWrites = 1)
        /\ HasProperty(c, ExitStatusProp) =>
               /\ containers[c].outcome.done
               /\ Property(c, ExitStatusProp) = Sprintf_d(containers[c].outcome.status)
               /\ containers[c].outcome.status = containers[c].process.status

C6_Witness ==
    /\ runs >= 2
    /\ Done
    /\ RecoveryRun
    /\ containers[stepContainer].exitStatusWrites = 1
    /\ Property(stepContainer, ExitStatusProp) = Sprintf_d(12)

\* C7: at most one run-stage container is ever created for the step's
\* identifier, whatever the lookups answer.
C7_AtMostOneContainer == Len(containers) <= 1

Cancelled == signals = "received"

\* C8: once the select has taken the cancellation signal, Run registers the
\* sources, then calls Stop(false), then returns ErrInterrupted; it writes no
\* concourse:exit-status and does not call the delegate's Finished.
C8_Cancellation ==
    Cancelled =>
        /\ pc \in {"stop", "returned", "released"}
        /\ CountEvents("registerSource") = 1
        /\ ~WroteExitStatus
        /\ ~HasEvent("Finished")
        /\ ~HasProperty(stepContainer, ExitStatusProp)
        /\ pc = "stop" =>
               /\ log[Len(log)] = Ev("registerSource", <<>>)
               /\ ~HasEvent("Stop")
        /\ Done =>
               /\ result.err = "ErrInterrupted"
               /\ CountEvents("Stop") = 1
               /\ Len(RunLog) >= 2
               /\ RunLog[Len(RunLog) - 1] = Ev("registerSource", <<>>)
               /\ RunLog[Len(RunLog)] = Ev("Stop", <<"false">>)

C8_Witness ==
    /\ pc = "released"
    /\ Cancelled
    /\ containers[stepContainer].process.state = "exited"
    /\ registered["x"].kind = "containerSource"

\* C9: the Release that follows a cancelled Run gives the container
\* FailedStepTTL.
C9_CancelledReleaseTTL ==
    (pc = "released" /\ result.err = "ErrInterrupted") =>
        log[Len(log)] = Ev("Release", <<FailedStepTTL>>)

PlaceDone == placePc = "returned"

PlaceCalled(op) == \E k \in 1..Len(placeLog) : placeLog[k].op = op

\* the calls of worker.FindOrCreateBuildContainer so far, in order
Attempts == SelectSeq(placeLog, LAMBDA e : e.op = "FindOrCreateBuildContainer")

AttemptedWorkers == [k \in 1..Len(Attempts) |-> Attempts[k].arg[1]]

AttemptOutcome(k) == Attempts[k].arg[2]

LookupFailed ==
    /\ Len(placeLog) > 0
    /\ placeLog[1].op = "FindWorkerForBuildContainer"
    /\ Len(placeLog[1].arg) > 0

\* spec.Inputs with a volume on w
InputCount(w) == Cardinality({i \in Range(inputs) : volOn[i][w] = "found"})

Compatible == AllSatisfying(running, poolSpec, providerFails).workers

\* the compatible workers tied for the maximum count, in AllSatisfying order
TiedForMaximum ==
    SelectSeq(Compatible,
              LAMBDA w : \A v \in Range(Compatible) : InputCount(v) <= InputCount(w))

IsPrefix(s, t) == Len(s) <= Len(t) /\ \A k \in 1..Len(s) : s[k] = t[k]

\* C11: FindOrCreateBuildContainer asks the provider first; when a worker hosts
\* the build container creation is delegated to exactly that worker, once, and
\* neither the running workers nor any VolumeOn is consulted; when the lookup
\* fails its error is returned and no creation is attempted.
C11_HostWorkerFirst ==
    /\ Len(placeLog) > 0 => placeLog[1].op = "FindWorkerForBuildContainer"
    /\ placeHost # NoWorker =>
          /\ ~PlaceCalled("RunningWorkers")
          /\ ~PlaceCalled("VolumeOn")
          /\ IsPrefix(AttemptedWorkers, <<placeHost>>)
          /\ PlaceDone =>
                /\ AttemptedWorkers = <<placeHost>>
                /\ placeResult = IF AttemptOutcome(1) = "ok" THEN PlacementOk(placeHost)
                                 ELSE PlacementErr(CreateError(AttemptOutcome(1)))
    /\ LookupFailed =>
          /\ PlaceDone
          /\ placeResult = PlacementErr(placeLog[1].arg)
          /\ Len(placeLog) = 1

\* a container is created on the host although another running worker holds
\* more input volumes
C11_Witness ==
    /\ PlaceDone
    /\ placeHost # NoWorker
    /\ placeResult = PlacementOk(placeHost)
    /\ \E w \in Range(running) : InputCount(w) > InputCount(placeHost)

\* C12: with no hosting worker, creation is attempted only on compatible
\* workers tied for the maximum input count, in AllSatisfying order.
C12_TiedForMaximum ==
    placeHost = NoWorker =>
        /\ IsPrefix(AttemptedWorkers, TiedForMaximum)
        /\ placePc = "attempt" => AttemptedWorkers \o placeWorkers = TiedForMaximum

\* two tied workers are attempted in order while a worker with a lower,
\* non-zero count is left alone
C12_Witness ==
    /\ PlaceDone
    /\ placeHost = NoWorker
    /\ Len(AttemptedWorkers) = 2
    /\ \E w \in Range(Compatible) :
          /\ InputCount(w) > 0
          /\ InputCount(w) < InputCount(AttemptedWorkers[1])

\* C13: a candidate failing with the maximum-containers error is skipped and
\* the next one attempted; any other error is returned at once; the first
\* success is returned at once.
C13_SkipOnlySaturated ==
    placeHost = NoWorker =>
        /\ \A k \in 1..Len(Attempts) :
              k < Len(Attempts) => AttemptOutcome(k) = "max"
        /\ (placePc = "attempt" /\ Len(Attempts) > 0) =>
              /\ AttemptOutcome(Len(Attempts)) = "max"
              /\ Len(placeWorkers) > 0 => Head(placeWorkers) \notin Range(AttemptedWorkers)
        /\ (PlaceDone /\ Len(Attempts) > 0) =>
              LET last == Len(Attempts)
              IN  /\ AttemptOutcome(last) = "ok" =>
                        placeResult = PlacementOk(AttemptedWorkers[last])
                  /\ AttemptOutcome(last) = "other" =>
                        placeResult = PlacementErr(CreateError("other"))
                  /\ AttemptOutcome(last) = "max" =>
                        /\ AttemptedWorkers = TiedForMaximum
                        /\ placeResult = PlacementErr(
                               <<"failed to create container on all compatible workers">>)

\* a saturated candidate is skipped and the next one gets the container
C13_Witness ==
    /\ PlaceDone
    /\ placeHost = NoWorker
    /\ Len(Attempts) = 2
    /\ AttemptOutcome(1) = "max"
    /\ placeResult = PlacementOk(AttemptedWorkers[2])

\* W1 hosts input A only, W2 hosts A and B, W3 hosts nothing
SaturationLayout ==
    /\ Range(Compatible) = {1, 2, 3}
    /\ volOn["A"][1] = "found" /\ volOn["B"][1] = "absent"
    /\ volOn["A"][2] = "found" /\ volOn["B"][2] = "found"
    /\ volOn["A"][3] = "absent" /\ volOn["B"][3] = "absent"

\* C14: in the saturation layout, when creation on W2 fails with the
\* maximum-containers error, creation is attempted on W1 next.
C14_SaturationFallback ==
    (/\ SaturationLayout
     /\ placeHost = NoWorker
     /\ PlaceDone
     /\ Len(Attempts) > 0
     /\ AttemptedWorkers[1] = 2
     /\ AttemptOutcome(1) = "max")
    => (Len(Attempts) >= 2 /\ AttemptedWorkers[2] = 1)

\* ------------------------------- claims: createContainer retry (SpecSelect)
\* the calls of chosenWorker.CreateContainer so far, in order
CreateAttempts == SelectSeq(log, LAMBDA e : e.op = "CreateContainer")

CreateAttemptWorker(k) == CreateAttempts[k].arg[2]

CreateAttemptFailed(k) == CreateAttempts[k].arg[1] = "error"

\* the declared inputs without a volume on w, in declaration order
InputsWithoutVolumeOn(w) == SelectSeq(inputs, LAMBDA i : volOn[i][w] # "found")

\* C15: a worker whose CreateContainer fails is dropped and selection recurses
\* over the rest, choosing again by input-volume count and computing the inputs
\* to stream again; no worker is attempted twice, the attempts and the
\* remaining workers never exceed the worker list, and when no worker remains
\* the step fails with the all-workers-failed error.
C15_RetryOnOtherWorkers ==
    /\ \A j, k \in 1..Len(CreateAttempts) :
          /\ j < k => CreateAttemptWorker(j) # CreateAttemptWorker(k)
          /\ k < Len(CreateAttempts) => CreateAttemptFailed(k)
    /\ pc \in {"choose", "outvols", "create"} =>
          /\ \A k \in 1..Len(CreateAttempts) :
                CreateAttemptWorker(k) \notin Range(compatibleWorkers)
          /\ Len(CreateAttempts) + Len(compatibleWorkers) <= NumWorkers
    /\ HasChosen =>
          /\ chosenWorker \in Range(compatibleWorkers)
          /\ \A w \in Range(compatibleWorkers) : MountCount(chosenWorker) >= MountCount(w)
          /\ inputsToStream = InputsWithoutVolumeOn(chosenWorker)
    /\ (pc = "returned" /\ Len(log) > 0 /\ log[Len(log)].op = "CreateContainer") =>
          /\ CreateAttemptFailed(Len(CreateAttempts))
          /\ compatibleWorkers = <<CreateAttemptWorker(Len(CreateAttempts))>>
          /\ result = Err("Failed to create container on all compatible workers")
          /\ stepContainer = 0
          /\ containers = <<>>

\* the first worker failed; the second choice holds fewer input volumes, so an
\* input that was mounted on the first is now streamed; then that one fails too
C15_Witness ==
    /\ pc = "returned"
    /\ Len(CreateAttempts) = 2
    /\ CreateAttemptFailed(2)
    /\ MountCount(CreateAttemptWorker(2)) < MountCount(CreateAttemptWorker(1))
    /\ Len(inputsToStream) > 0

\* ------------------------------------------------ claims: TaskStep.Release
\* C16: Release releases the step's container once, for SuccessfulStepTTL when
\* the step's exit status is zero and for FailedStepTTL otherwise, and
\* releases nothing when the step has no container.
C16_ReleaseTTL ==
    /\ pc # "released" => CountEvents("Release") = 0
    /\ pc = "released" =>
          IF stepContainer = 0
          THEN CountEvents("Release") = 0
          ELSE /\ CountEvents("Release") = 1
               /\ exitStatus = 0 => HasEntry(Ev("Release", <<SuccessfulStepTTL>>))
               /\ exitStatus # 0 => HasEntry(Ev("Release", <<FailedStepTTL>>))

\* a step whose process exited with a non-zero status is released
C16_Witness ==
    /\ pc = "released"
    /\ stepContainer # 0
    /\ exitStatus = 12
    /\ HasEntry(Ev("Release", <<FailedStepTTL>>))

\* --------------------------------------- claims: VolumeOn of task sources
Queried == sourceQuery # NoQuery

QueriedSource == registered[sourceQuery.name]

\* the worker hosting the container the queried source belongs to
QueriedHost == containers[QueriedSource.container].worker

HasHandle(src) == src.kind = "containerSource" /\ Len(src.volumeHandle) > 0

MissingInputs == SelectSeq(inputs, LAMBDA i : i \notin inRepo)

NothingCreated ==
    /\ containers = <<>>
    /\ stepContainer = 0
    /\ stepProcess = <<>>
    /\ ~HasEvent("CreateVolume")
    /\ ~HasEvent("CreateContainer")
    /\ ~HasEvent("Run")

VolumeOnFailsFirst ==
    \E i \in Range(inputs) \cap inRepo : volOn[i][compatibleWorkers[1]] = "error"

C19_ImageUnavailable ==
    fetchErr["step"] = ErrImageUnavailable =>
        /\ pc \in {"image", "returned"}
        /\ pc = "returned" =>
              /\ result = ErrImageUnavailable
              /\ log[Len(log)] = Ev("getContainerImage", <<"error">>)
              /\ stepContainer = 0
              /\ containers = <<>>
              /\ ~HasEvent("CreateVolume")

\* the fetchers running the image Get on worker w
Getting(w) == {f \in Fetchers : fetchWorker(f) = w /\ fetchPc[f] = "getting"}

\* C20: for one cache key on one worker the image Get is run by at most one
\* step at a time, and succeeds at most once.
C20_ImageGetAtMostOnce ==
    \A w \in Workers :
        /\ Cardinality(Getting(w)) <= 1
        /\ getCount[w] <= 1

\* ------------------- SpecCancel: a signal arriving while Run sets the task up
\* positions of Run at which the next call is a remote setup operation
SetupPositions == {"outvols", "image", "create", "builddir", "stream", "setupout",
                   "run", "setprop"}

\* the calls Run makes while setting up
SetupOps == {"CreateVolume", "getContainerImage", "CreateContainer",
             "ensureBuildDirExists", "StreamTo", "setupOutputs", "Run", "SetProperty"}

\* the signals channel becomes readable while a setup operation is in
\* progress; Run reads the channel only in its final select
SignalDuringSetup ==
    /\ pc \in SetupPositions
    /\ signals = "none"
    /\ signals' = "pending"
    /\ log' = Append(log, Ev("signalled", <<pc>>))
    /\ UNCHANGED <<runs, handlerVars, imageVars, poolVars, placeVars, sourceQuery, configVars,
                   containers, selectVars, pc, stepContainer, stepProcess, exitStatus,
                   registered, ready, result>>

NextCancel ==
    \/ FetchConfig
    \/ FindContainerForIdentifier
    \/ CallAllSatisfying
    \/ ChooseWorker
    \/ CreateOutputVolumes
    \/ CreateContainer
    \/ EnsureBuildDirExists
    \/ StreamInputs
    \/ SetupOutputs
    \/ RunProcess
    \/ SetTaskProcess
    \/ CloseReady
    \/ SelectSignal
    \/ StopContainer
    \/ SelectExitStatus
    \/ SetExitStatus
    \/ SelectWaitErr
    \/ Release
    \/ Signal
    \/ SignalDuringSetup
    \/ ProcessExits
    \/ ContainerDies

SpecCancel == Init /\ [][NextCancel]_vars

\* setup operations Run has called since the log's k-th entry
SetupOpsAfter(k) == {log[j].op : j \in (k + 1)..Len(log)} \cap SetupOps

\* C21: a signal received during a remote setup operation makes Run return
\* without performing the remaining setup: after the signal at most the
\* operation that was in progress appears among Run's calls, and ready is
\* not closed
C21_CancelDuringSetup ==
    \A k \in 1..Len(log) :
        log[k].op = "signalled" =>
            /\ Cardinality(SetupOpsAfter(k)) <= 1
            /\ ~ \E j \in (k + 1)..Len(log) : log[j].op = "close(ready)"

\* ------------------------ SpecTrigger: one manual trigger request for a job
\* one request, over every job configuration and every requested job name
InitTrigger ==
    /\ InitPoolIdle
    /\ InitConfigIdle
    /\ containers = <<>>
    /\ InitSelection
    /\ InitStep
    /\ runs = 1
    /\ placePc = "idle"
    /\ placeHost = NoWorker
    /\ placeCompat = <<>>
    /\ placeWorkers = <<>>
    /\ placeResult = NoPlacement
    /\ placeLog = <<>>
    /\ sourceQuery = NoQuery
    /\ InitImageIdle
    /\ jobs \in [JobNames -> {JobAbsent} \cup JobConfigs]
    /\ jobName \in JobNames
    /\ handlerPc = "lookup"
    /\ response = NoResponse
    /\ triggerCalls = 0
    /\ builds = <<>>

NextTrigger ==
    \/ HandlerLookup
    \/ HandlerResourceTypes
    \/ HandlerTrigger

SpecTrigger == InitTrigger /\ [][NextTrigger]_vars

JobUnknown == ~jobs[jobName].configured
ManualTriggerDisabled == ~JobUnknown /\ jobs[jobName].DisableManualTrigger

\* C22: a manual trigger for a job with disable_manual_trigger is answered
\* with Conflict, and one for an unknown job with NotFound; in both cases
\* TriggerImmediately is never called and no build is created
C22_ManualTriggerRefused ==
    /\ (JobUnknown \/ ManualTriggerDisabled) =>
           /\ triggerCalls = 0
           /\ builds = <<>>
           /\ handlerPc \in {"lookup", "done"}
    /\ (handlerPc = "done" /\ ManualTriggerDisabled) =>
           response.status = StatusConflict
    /\ (handlerPc = "done" /\ JobUnknown) =>
           response.status = StatusNotFound

\* a request for a job with disable_manual_trigger has been answered
C22_Witness ==
    /\ handlerPc = "done"
    /\ ManualTriggerDisabled
    /\ response.status = StatusConflict

\* what AllSatisfying answers in the pool's present state
Compatibles == AllSatisfying(running, poolSpec, providerFails)

\* C23: AllSatisfying returns ErrNoWorkers exactly when the provider reports
\* zero workers and NoCompatibleWorkersError exactly when the list is not
\* empty and no worker satisfies the spec; a provider error is returned as it
\* is; a successful list is not empty, and the worker pool.Satisfying returns
\* is a member of it
C23_PoolErrors ==
    /\ poolPc = "done" =>
        /\ poolResult.err = "ErrNoWorkers" <=> (~providerFails /\ Len(running) = 0)
        /\ poolResult.err = "NoCompatibleWorkersError" <=>
               /\ ~providerFails
               /\ Len(running) > 0
               /\ TeamMatches \cup GeneralMatches = {}
        /\ providerFails => poolResult = PoolErr("ProviderError")
        /\ poolResult.err = None =>
               /\ Len(poolResult.workers) > 0
               /\ Range(poolResult.workers) \subseteq TeamMatches \cup GeneralMatches
    /\ poolPc = "satisfied" =>
        IF Compatibles.err = None
        THEN /\ poolResult.err = None
             /\ Len(poolResult.workers) = 1
             /\ poolResult.workers[1] \in Range(Compatibles.workers)
        ELSE poolResult = Compatibles

\* Satisfying picked a worker other than the first of several compatible ones
C23_Witness ==
    /\ poolPc = "satisfied"
    /\ poolResult.err = None
    /\ Len(Compatibles.workers) > 1
    /\ poolResult.workers[1] # Compatibles.workers[1]

\* ---------- SpecResource: pool calls for resource check and get containers
ResourceReturn(call, r) ==
    /\ placePc' = call
    /\ placeResult' = r

\* what the provider's lookup answered, as a log argument
LookupArg(answer) ==
    IF lookupFailed(answer) THEN <<NoWorker, "error">>
    ELSE IF answer.found THEN <<answer.worker, "found">>
    ELSE <<NoWorker, "absent">>

\* mutation: a satisfying worker is chosen whatever the lookup found
needsNewWorker_Always(answer) == TRUE

\* if !found { worker, err = pool.Satisfying(...) }
needsNewWorker(answer) == ~answer.found

\* worker, found, err := pool.provider.FindWorkerForResourceCheckContainer(...)
ResourceCheckFindWorker ==
    /\ placePc = "check-find"
    /\ \E answer \in LookupAnswers :
          /\ placeLog' = Append(placeLog,
                 Ev("FindWorkerForResourceCheckContainer", LookupArg(answer)))
          /\ IF lookupFailed(answer)
             THEN /\ ResourceReturn("check-returned", PlacementErr(answer.err))
                  /\ UNCHANGED placeHost
             ELSE /\ placeHost' = answer.worker
                  /\ placePc' = IF needsNewWorker(answer) THEN "check-satisfying"
                                ELSE "check-delegate"
                  /\ UNCHANGED placeResult
    /\ UNCHANGED <<runs, handlerVars, imageVars, poolVars, configVars, containers, selectVars,
                   stepVars, sourceQuery, placeCompat, placeWorkers>>

\* worker, err = pool.Satisfying(logger, spec.WorkerSpec(), resourceTypes)
ResourceSatisfying(call, next) ==
    /\ \E r \in SatisfyingOutcomes(running, poolSpec, providerFails) :
          IF r.err # None
          THEN /\ placeLog' = Append(placeLog, Ev("Satisfying", <<NoWorker, r.err>>))
               /\ ResourceReturn(call, PlacementErr(<<r.err>>))
               /\ UNCHANGED placeHost
          ELSE /\ placeLog' = Append(placeLog, Ev("Satisfying", <<r.workers[1], "ok">>))
               /\ placeHost' = r.workers[1]
               /\ placePc' = next
               /\ UNCHANGED placeResult
    /\ UNCHANGED <<runs, handlerVars, imageVars, poolVars, configVars, containers, selectVars,
                   stepVars, sourceQuery, placeCompat, placeWorkers>>

\* the call on the worker: worker.FindOrCreateResourceCheckContainer(...) or
\* worker.CreateResourceGetContainer(...)
ResourceDelegate(op, call) ==
    /\ \E outcome \in CreateOutcomes :
          /\ placeLog' = Append(placeLog, Ev(op, <<placeHost, outcome>>))
          /\ ResourceReturn(call, IF outcome = "ok" THEN PlacementOk(placeHost)
                                  ELSE PlacementErr(CreateError(outcome)))
    /\ UNCHANGED <<runs, handlerVars, imageVars, poolVars, configVars, containers, selectVars,
                   stepVars, sourceQuery, placeHost, placeCompat, placeWorkers>>

ResourceCheckSatisfying ==
    /\ placePc = "check-satisfying"
    /\ ResourceSatisfying("check-returned", "check-delegate")

ResourceCheckDelegate ==
    /\ placePc = "check-delegate"
    /\ ResourceDelegate("FindOrCreateResourceCheckContainer", "check-returned")

\* pool.CreateResourceGetContainer begins with pool.Satisfying
ResourceGetSatisfying ==
    /\ placePc = "get-satisfying"
    /\ ResourceSatisfying("get-returned", "get-create")

ResourceGetCreate ==
    /\ placePc = "get-create"
    /\ ResourceDelegate("CreateResourceGetContainer", "get-returned")

\* one call of either method, over every worker list and every set of
\* workers satisfying the spec
InitResource ==
    /\ running \in DistinctSeqs(PlacementWorkers)
    /\ providerFails = FALSE
    /\ ownedByTeam = [w \in PlacementWorkers |-> FALSE]
    /\ satisfies \in [PlacementWorkers -> {{}, {"linux"}}]
    /\ poolSpec = "linux"
    /\ poolPc = "idle"
    /\ poolResult = PoolOk(NoWorkers)
    /\ inputs = <<>>
    /\ outputs = <<>>
    /\ inRepo = {}
    /\ volOn = [i \in InputNames |-> [w \in PlacementWorkers |-> "absent"]]
    /\ hasVM = [w \in PlacementWorkers |-> TRUE]
    /\ imageResource = FALSE
    /\ containers = <<>>
    /\ InitSelection
    /\ InitStep
    /\ runs = 1
    /\ placePc \in {"check-find", "get-satisfying"}
    /\ placeHost = NoWorker
    /\ placeCompat = <<>>
    /\ placeWorkers = <<>>
    /\ placeResult = NoPlacement
    /\ placeLog = <<>>
    /\ sourceQuery = NoQuery
    /\ InitImageIdle
    /\ InitHandlerIdle

NextResource ==
    \/ ResourceCheckFindWorker
    \/ ResourceCheckSatisfying
    \/ ResourceCheckDelegate
    \/ ResourceGetSatisfying
    \/ ResourceGetCreate

SpecResource == InitResource /\ [][NextResource]_vars

ResourceReturned == placePc \in {"check-returned", "get-returned"}

ResourceCalled(op) == \E k \in 1..Len(placeLog) : placeLog[k].op = op

\* the call looked the hosting worker up before anything else, delegated to
\* the worker found, and asked for a satisfying worker only when none was found
LookupThenDelegate(delegateOp) ==
    /\ placeLog[1].op = "FindWorkerForResourceCheckContainer"
    /\ placeLog[1].arg[2] = "found" =>
           /\ ~ResourceCalled("Satisfying")
           /\ Len(placeLog) = 2
           /\ placeLog[2].op = delegateOp
           /\ placeLog[2].arg[1] = placeLog[1].arg[1]
    /\ ResourceCalled("Satisfying") => placeLog[1].arg[2] = "absent"
    /\ placeLog[1].arg[2] = "error" => Len(placeLog) = 1

\* C24 as stated: FindOrCreateResourceCheckContainer and
\* CreateResourceGetContainer both look up the worker hosting a container
\* for the resource user first, delegate to it when found and choose a
\* satisfying worker only when none is found
C24_BothLookUpFirst ==
    /\ placePc = "check-returned" =>
           LookupThenDelegate("FindOrCreateResourceCheckContainer")
    /\ placePc = "get-returned" =>
           LookupThenDelegate("CreateResourceGetContainer")

\* C24 amended: FindOrCreateResourceCheckContainer looks the hosting worker
\* up first, delegates to it when found and chooses a satisfying worker only
\* when none is found; CreateResourceGetContainer makes no lookup: it always
\* asks for a satisfying worker and creates the container on the one returned
C24_CheckLooksUpGetDoesNot ==
    /\ placePc = "check-returned" =>
           LookupThenDelegate("FindOrCreateResourceCheckContainer")
    /\ placePc = "get-returned" =>
           /\ placeLog[1].op = "Satisfying"
           /\ ~ResourceCalled("FindWorkerForResourceCheckContainer")
           /\ Len(placeLog) = 2 =>
                  /\ placeLog[2].op = "CreateResourceGetContainer"
                  /\ placeLog[2].arg[1] = placeLog[1].arg[1]
           /\ Len(placeLog) <= 2

\* the check container was delegated to the worker the lookup found, which
\* does not satisfy the spec
C24_Witness ==
    /\ placePc = "check-returned"
    /\ placeLog[1].arg[2] = "found"
    /\ placeResult.container = placeLog[1].arg[1]
    /\ placeResult.container # NoWorker
    /\ satisfies[placeResult.container] = {}

\* the positions of compatibleWorkers whose worker has the highest number of
\* mountable inputs
TiedPositions ==
    {k \in 1..Len(compatibleWorkers) :
        \A w \in Range(compatibleWorkers) :
            MountCount(compatibleWorkers[k]) >= MountCount(w)}

\* C25 as stated: among the workers tied for the highest number of mountable
\* inputs, the one earliest in the list is chosen
C25_EarliestTiedWorker ==
    HasChosen =>
        \E k \in TiedPositions :
            /\ chosenWorker = compatibleWorkers[k]
            /\ \A j \in TiedPositions : k <= j

\* C25 amended: among the workers tied for the highest number of mountable
\* inputs, the one latest in the list is chosen; the choice is a function of
\* the list and the volumes
C25_LatestTiedWorker ==
    HasChosen =>
        \E k \in TiedPositions :
            /\ chosenWorker = compatibleWorkers[k]
            /\ \A j \in TiedPositions : j <= k

\* a worker was chosen among several tied ones that all mount an input
C25_Witness ==
    /\ pc = "create"
    /\ Cardinality(TiedPositions) >= 2
    /\ MountCount(chosenWorker) >= 1

\* this Run started the process itself
FreshStart == HasEntry(Ev("Run", <<"ok">>))

StoredTaskProcess(k) == log[k] = Ev("SetProperty", <<TaskProcessProp>>)

\* C26: on a fresh run the id of the started process is stored in
\* concourse:task-process before ready is closed: once ready is closed the
\* container carries the property with that id, the store precedes the close
\* among Run's calls, and when the store fails Run returns its error with
\* ready still open
C26_ProcessIdBeforeReady ==
    /\ (FreshStart /\ ready > 0) =>
           /\ HasProperty(stepContainer, TaskProcessProp)
           /\ Property(stepContainer, TaskProcessProp) = stepProcess
           /\ stepProcess = containers[stepContainer].process.id
           /\ \A k \in 1..Len(log) :
                  log[k].op = "close(ready)" => \E j \in 1..(k - 1) : StoredTaskProcess(j)
    /\ HasEntry(Ev("SetProperty", <<TaskProcessProp, "error">>)) =>
           /\ ready = 0
           /\ Done
           /\ result = Err("SetPropertyError")

\* ready was closed by a run that started the process
C26_Witness ==
    /\ FreshStart
    /\ ready > 0
    /\ pc = "wait"

\* this Run found a container carrying neither reserved property
RogueRun ==
    /\ FoundContainer
    /\ ~HasProperty(stepContainer, ExitStatusProp)
    /\ ~HasProperty(stepContainer, TaskProcessProp)

\* C27: a Run that finds a container with neither concourse:exit-status nor
\* concourse:task-process returns the property lookup error; it attaches to
\* no process, creates no container, registers no source and writes no
\* property
C27_RogueContainer ==
    (RogueRun /\ pc # "probe") =>
        /\ Done
        /\ result = Err("PropertyNotFound")
        /\ RunLog = <<Ev("FetchConfig", <<>>), Ev("FindContainerForIdentifier", <<"found">>)>>
        /\ stepProcess = <<>>
        /\ registered = EmptyRepo
        /\ ready = 0

\* a Run returned from a container that carries neither property
C27_Witness ==
    /\ RogueRun
    /\ pc = "returned"
    /\ result = Err("PropertyNotFound")

AllCandidatesFailed ==
    [err |-> <<"failed to create container on all compatible workers">>,
     container |-> NoWorker]

\* C28: placement over the candidates ends: no candidate is attempted twice,
\* the attempts and the candidates still to try add up to the candidates
\* handed in, and when every candidate reports the maximum-containers error
\* the call returns 'failed to create container on all compatible workers'
\* and no container
C28_PlacementTerminates ==
    placeHost = NoWorker =>
        /\ \A j, k \in 1..Len(Attempts) :
               j # k => AttemptedWorkers[j] # AttemptedWorkers[k]
        /\ Range(AttemptedWorkers) \subseteq Range(TiedForMaximum)
        /\ placePc = "attempt" =>
               AttemptedWorkers \o placeWorkers = TiedForMaximum
        /\ (/\ PlaceDone
            /\ Len(Attempts) > 0
            /\ \A k \in 1..Len(Attempts) : AttemptOutcome(k) = "max")
           => /\ placeResult = AllCandidatesFailed
              /\ AttemptedWorkers = TiedForMaximum

\* every one of several candidates was saturated and the call has failed
C28_Witness ==
    /\ PlaceDone
    /\ placeHost = NoWorker
    /\ Len(Attempts) >= 2
    /\ \A k \in 1..Len(Attempts) : AttemptOutcome(k) = "max"
    /\ placeResult = AllCandidatesFailed

\* fetcher f moves from position a to position b
FetchMoves(f, a, b) == fetchPc[f] = a /\ fetchPc'[f] = b

\* C29: a fetcher goes on to run Get only when the cache on its worker is not
\* initialized and returns without Get only when it is; the cache becomes
\* initialized by no step other than the Initialize that follows a Get that
\* succeeded; a Get that fails leaves the cache as it was
C29_GetIffUninitialized ==
    [][\A f \in Fetchers :
          /\ FetchMoves(f, "cache", "get") => ~cacheInitialized[fetchWorker(f)]
          /\ FetchMoves(f, "cache", "done") => cacheInitialized[fetchWorker(f)]
          /\ fetchPc'[f] = "get" => fetchPc[f] \in {"cache", "get"}
          /\ fetchPc'[f] = "initialize" =>
                \/ fetchPc[f] = "initialize"
                \/ /\ fetchPc[f] = "getting"
                   /\ getCount'[fetchWorker(f)] = getCount[fetchWorker(f)] + 1
          /\ FetchMoves(f, "getting", "failed") => cacheInitialized' = cacheInitialized
          /\ cacheInitialized' # cacheInitialized =>
                \E g \in Fetchers :
                    /\ FetchMoves(g, "initialize", "done")
                    /\ cacheInitialized' =
                           [cacheInitialized EXCEPT ![fetchWorker(g)] = TRUE]
      ]_vars

\* this step has run the Get and initialized the cache, which the other step
\* found initialized and reused
C29_Witness ==
    /\ fetchPc["step"] = "done"
    /\ fetchPc["other"] = "done"
    /\ fetchWorker("step") = fetchWorker("other")
    /\ cacheInitialized[fetchWorker("step")]
    /\ getCount[fetchWorker("step")] = 1

\* the container has been created, on chosenWorker
ContainerCreated ==
    \E k \in 1..Len(log) : log[k] = Ev("CreateContainer", <<"ok", chosenWorker>>)

\* the names of the inputs mounted into the container, in order
MountedInputs == [k \in 1..Len(inputMounts) |-> inputMounts[k].Volume[2]]

\* the stream-in calls made so far, in order
StreamCalls == SelectSeq(log, LAMBDA e : e.op = "StreamTo")

\* C30: on the worker where the container is created, the mounted inputs are
\* exactly the declared inputs with a volume on that worker, each mounted once
\* from its volume there at its destination, the streamed inputs are exactly
\* the others, and the stream-in calls go through the inputs to stream in
\* order: none when every input has a volume on the worker
C30_InputPartition ==
    ContainerCreated =>
        /\ MountedInputs = SelectSeq(inputs, LAMBDA i : volOn[i][chosenWorker] = "found")
        /\ \A k \in 1..Len(inputMounts) :
               inputMounts[k] = VolumeMount(InputVolume(MountedInputs[k], chosenWorker),
                                            inputDestination(MountedInputs[k]))
        /\ inputsToStream = InputsWithoutVolumeOn(chosenWorker)
        /\ Range(MountedInputs) \cap Range(inputsToStream) = {}
        /\ Range(MountedInputs) \cup Range(inputsToStream) = Range(inputs)
        /\ Len(StreamCalls) <= Len(inputsToStream)
        /\ \A k \in 1..Len(StreamCalls) : StreamCalls[k].arg[1] = inputsToStream[k]
        /\ pc = "setupout" =>
               StreamCalls = [k \in 1..Len(inputsToStream) |-> Ev("StreamTo", <<inputsToStream[k]>>)]

\* one input was mounted and the other streamed into the created container
C30_Witness ==
    /\ ContainerCreated
    /\ pc = "setupout"
    /\ Len(inputMounts) = 1
    /\ Len(StreamCalls) = 1

\* every input was mounted and the streaming step made no call
C30_WitnessNoStream ==
    /\ ContainerCreated
    /\ pc = "setupout"
    /\ Len(inputMounts) = 2
    /\ StreamCalls = <<>>

\* --------------------------------------- claims: volume references
CountOps(op, volume) ==
    Cardinality({k \in 1..Len(volumeLog) :
                    volumeLog[k] = [op |-> op, volume |-> volume]})

\* the references to the volume the step holds
Held(volume) == CountOps("acquire", volume) - CountOps("release", volume)

LoggedVolumes == {volumeLog[k].volume : k \in 1..Len(volumeLog)}

MountVolumes(mounts) == {mounts[k].Volume : k \in 1..Len(mounts)}

\* C31: when createContainer returns a container the step has released each
\* input-mount and output-mount volume of the chosen worker once, these
\* releases being its last volume calls, and holds none of them; until
\* CreateContainer has succeeded it holds one reference to each
C31_MountsReleasedOnce ==
    /\ ContainerCreated =>
           LET mounts == inputMounts \o outputMounts
               before == Len(volumeLog) - Len(mounts)
           IN  /\ before >= 0
               /\ SubSeq(volumeLog, before + 1, Len(volumeLog)) = releasesOf(mounts)
               /\ \A v \in MountVolumes(mounts) :
                      /\ Held(v) = 0
                      /\ \A k \in 1..before :
                             volumeLog[k] = Release0(v) =>
                                 \E j \in (k + 1)..before : volumeLog[j] = Acquire(v)
    /\ pc \in {"outvols", "image", "create"} =>
           \A v \in MountVolumes(inputMounts) : Held(v) = 1
    /\ pc \in {"image", "create"} =>
           \A v \in MountVolumes(outputMounts) : Held(v) = 1

\* a container was created with an input volume and an output volume mounted
C31_Witness ==
    /\ ContainerCreated
    /\ Len(inputMounts) >= 1
    /\ Len(outputMounts) >= 1

\* chooseWorkerWithMostVolumes has returned from its first call
FirstChoiceReturned ==
    log = <<Ev("chooseWorkerWithMostVolumes", <<>>)>>

\* C34: when chooseWorkerWithMostVolumes returns, with or without an error,
\* the step holds one reference to each mount of the chosen worker and none
\* to any other volume it looked up, each of which it released as often as
\* it took it
C34_ReferencesBalanced ==
    FirstChoiceReturned =>
        LET kept == IF pc = "outvols" THEN MountVolumes(inputMounts) ELSE {}
        IN  \A v \in LoggedVolumes :
                Held(v) = IF v \in kept THEN 1 ELSE 0

\* ------------------------------------------- claims: order of the setup
\* the calls of a setup in which every step succeeds, in the order of Run
FullSetup ==
    <<Ev("CreateContainer", <<"ok", chosenWorker>>), Ev("ensureBuildDirExists", <<>>)>>
    \o [k \in 1..Len(inputsToStream) |-> Ev("StreamTo", <<inputsToStream[k]>>)]
    \o <<Ev("setupOutputs", <<>>), Ev("Started", <<>>), Ev("Run", <<"ok">>)>>

SetupOpNames == {"ensureBuildDirExists", "StreamTo", "setupOutputs", "Started", "Run"}

\* the setup calls Run has made since the container was created
SetupCalls ==
    SelectSeq(log, LAMBDA e : e = Ev("CreateContainer", <<"ok", chosenWorker>>)
                              \/ e.op \in SetupOpNames)

\* the call is not one of a setup in which every step succeeds
FailedCall(k) == SetupCalls[k] # FullSetup[k]

\* C32: on a fresh run the container is created, the build directory made,
\* the inputs without a volume on the worker streamed in, the output
\* directories made and the process started, in this order and each after
\* the one before succeeded; a step that fails is the last and Run returns
\* its error; a process is started only after the whole setup, with every
\* declared input mounted or streamed
C32_SetupOrder ==
    /\ Len(SetupCalls) <= Len(FullSetup)
    /\ \A k \in 1..Len(SetupCalls) :
           /\ SetupCalls[k].op = FullSetup[k].op
           /\ FailedCall(k) =>
                  /\ k = Len(SetupCalls)
                  /\ Done
                  /\ result.err # None
    /\ (HasEvent("Initializing") /\ Done /\ result.err # None /\ ~FreshStart) =>
           /\ stepProcess = <<>>
           /\ stepContainer # 0 => containers[stepContainer].process = NoProcess
    /\ FreshStart =>
           /\ IsPrefix(FullSetup, SetupCalls)
           /\ Range(MountedInputs) \cup Range(inputsToStream) = Range(inputs)
           /\ MountVolumes(inputMounts) \subseteq
                  MountVolumes(containers[stepContainer].mounts)

\* the process was started after an input had been streamed in
C32_Witness ==
    /\ FreshStart
    /\ Len(inputsToStream) >= 1
    /\ SetupCalls = FullSetup

\* ------------------------------------------- claims: the ready channel
\* positions of Run before the wait phase
BeforeWait == {"fetch", "find", "probe", "allsat", "choose", "outvols", "image",
               "create", "builddir", "stream", "setupout", "run", "setprop", "ready"}

\* the call before the k-th has started the process and stored its id, or has
\* attached to the process
ProcessInHand(k) ==
    /\ k > 1
    /\ \/ /\ log[k - 1] = Ev("SetProperty", <<TaskProcessProp>>)
          /\ k > 2
          /\ log[k - 2] = Ev("Run", <<"ok">>)
       \/ log[k - 1].op = "Attach"

\* C33: Run closes ready at most once, and only right after it has started
\* or re-attached a process, which it then holds; before the wait phase, on
\* the already-exited recovery path and on every error return before the
\* wait phase ready has not been closed
C33_ReadyClosedOnce ==
    /\ ready \in {0, 1}
    /\ ready = CountEvents("close(ready)")
    /\ \A k \in 1..Len(log) : log[k].op = "close(ready)" => ProcessInHand(k)
    /\ ready = 1 =>
           /\ stepProcess # <<>>
           /\ stepProcess = containers[stepContainer].process.id
    /\ pc \in BeforeWait => ready = 0
    /\ (Done /\ RecoveryRun) => ready = 0
    /\ (Done /\ ready = 0) =>
           \/ RecoveryRun
           \/ result.err # None

\* ready was closed by a run that re-attached to the process
C33_Witness ==
    /\ ready = 1
    /\ HasEvent("Attach")
    /\ pc = "wait"

\* ------------------------------------------- claims: a failed wait
\* process.Wait() has failed and Run has taken the error from waitErr
WaitFailed ==
    /\ Done
    /\ ready = 1
    /\ containers[stepContainer].process.state = "dead"
    /\ signals # "received"

\* C35: when process.Wait fails Run returns that error and does nothing
\* else: it registers no source, does not write concourse:exit-status, does
\* not stop the container, does not tell the delegate of a finish, and the
\* step's exit status stays at its initial value
C35_WaitErrorFrame ==
    /\ WaitFailed => result = Err("WaitError")
    /\ result = Err("WaitError") =>
           /\ WaitFailed
           /\ registered = EmptyRepo
           /\ ~HasEvent("registerSource")
           /\ ~HasProperty(stepContainer, ExitStatusProp)
           /\ containers[stepContainer].exitStatusWrites = 0
           /\ ~HasEvent("SetProperty") \/ FreshStart
           /\ ~WroteExitStatus
           /\ ~HasEvent("Stop")
           /\ ~HasEvent("Finished")
           /\ exitStatus = 0
           /\ RunLog[Len(RunLog)] = Ev("close(ready)", <<>>)

\* Run has returned the error of a wait on a process it started
C35_Witness ==
    /\ pc = "returned"
    /\ result = Err("WaitError")
    /\ FreshStart

====
